---- MODULE Spec2Model ----
(***************************************************************************)
(* A model of the markdown-ppp parsing engine: the custom container block  *)
(* recognizer (src/src/parser/blocks/container.rs), the block dispatcher   *)
(* that calls it, the inline emphasis resolution, the image recognizer     *)
(* (src/src/parser/inline/image.rs), and the consumers of the document     *)
(* tree: the printer with its deferred-resolution indices                  *)
(* (src/src/typst_printer), the transformer and visitor walks              *)
(* (src/src/ast_transform) and the data conversions (src/src/ast).         *)
(*                                                                         *)
(* Text is a sequence of one-character strings.  A recognizer returns a    *)
(* nom result: Ok (rest, value), Error (recoverable: alt, many0, opt and   *)
(* separated_list0 go on) or Failure (what cut produces: every combinator  *)
(* hands it on to its caller unchanged).                                   *)
(***************************************************************************)
EXTENDS Integers, Sequences, FiniteSets, TLC

VARIABLES
    lines,    \* the lines of the input text typed so far
    eol,      \* whether the last line typed is followed by a line ending
    seed,     \* the container stack of the state handed to the parse
    pc,       \* "edit", "parse", "done" (Ok(Document)), "error", "failure"
    frames,   \* the active many0(block(state)) calls, outermost first
    doc,      \* the blocks of the Document returned
    tried,    \* the last call of the container recognizer and its outcome
    span,     \* the text handed to the inline parser
    ph,       \* how far the text of span is composed; "parsed" at the end
    inl,      \* the inline nodes the inline parser returned for span
    ast,      \* the blocks of a Document handed to a consumer of the tree
    made,     \* the number of steps in which ast was put together
    op,       \* the consumer applied to ast, "none" before
    res,      \* what that consumer returned
    tail,     \* the text after the closing ")" of an image
    typed,    \* the number of attributes typed into tail
    iph,      \* how far tail is composed; "parsed" at the end
    img,      \* the result of the image recognizer
    opening,  \* the opening line of a container with a params block
    odecl,    \* the pairs written into opening: key, value, quoted or bare
    oph,      \* how far opening is composed; "parsed" at the end
    opened,   \* the result of the container recognizer up to its body
    ea,       \* a text handed to escape_latex
    eb,       \* another text, which follows ea
    eph,      \* "a" or "b", the text being typed; "escaped" at the end
    eres      \* escape_latex of ea, of eb and of ea followed by eb

blockVars == <<lines, eol, seed, pc, frames, doc, tried>>
inlineVars == <<span, ph, inl>>
treeVars == <<ast, made, op, res>>
imageVars == <<tail, typed, iph, img>>
paramVars == <<opening, odecl, oph, opened>>
escapeVars == <<ea, eb, eph, eres>>
vars == <<blockVars, inlineVars, treeVars, imageVars, paramVars, escapeVars>>

----------------------------------------------------------------------------
(* Bounds of the model. *)

MaxLines == 4
MaxLen == 18
MaxSpan == 15
MaxSteps == 3
MaxAttributes == 2
MaxParams == 2
MaxText == 3

----------------------------------------------------------------------------
(* Characters. *)

NL == "\n"
QUOTE == "\""

Letters == {"a", "b", "c", "n", "w", "x", "H"}
Digits == {"1"}
Alphanumeric == Letters \cup Digits
Whitespace == {" ", "\t", "\n", "\r"}
Punctuation == {"*", "_", ".", ":", "{", "}", "=", "-", QUOTE}
WordChars == Alphanumeric \cup {"-", "_"}

----------------------------------------------------------------------------
(* Slices and nom's primitive recognizers. *)

Take(s, n) == SubSeq(s, 1, n)
Drop(s, n) == SubSeq(s, n + 1, Len(s))
StartsWith(s, p) == Len(p) <= Len(s) /\ SubSeq(s, 1, Len(p)) = p

\* The length of the longest prefix of s made of characters of C.
SpanLen(s, C) ==
    CHOOSE n \in 0..Len(s) :
        /\ \A i \in 1..n : s[i] \in C
        /\ (n = Len(s) \/ s[n + 1] \notin C)

\* The length of the longest prefix of s with no character of C.
NotSpanLen(s, C) ==
    CHOOSE n \in 0..Len(s) :
        /\ \A i \in 1..n : s[i] \notin C
        /\ (n = Len(s) \/ s[n + 1] \in C)

Ok(rest, val) == [t |-> "Ok", rest |-> rest, val |-> val]
Error(at) == [t |-> "Error", rest |-> at, val |-> <<>>]
Failure(at) == [t |-> "Failure", rest |-> at, val |-> <<>>]

\* cut(p): a recoverable Error of p becomes an unrecoverable Failure.
Cut(r) == IF r.t = "Error" THEN Failure(r.rest) ELSE r

\* alt((p, q)) with a and b the results of p and q on the same input: q is
\* tried after an Error of p only; a Failure of p is handed on.
Alt(a, b) == IF a.t = "Error" THEN b ELSE a

\* str::trim().is_empty()
IsBlank(s) == \A i \in 1..Len(s) : s[i] \in Whitespace

\* The position of the last character of s that is not whitespace.
TrimEnd(s) ==
    CHOOSE n \in 0..Len(s) :
        /\ \A i \in (n + 1)..Len(s) : s[i] \in Whitespace
        /\ (n = 0 \/ s[n] \notin Whitespace)

\* str::trim()
Trim(s) == SubSeq(s, SpanLen(s, Whitespace) + 1, TrimEnd(s))

space0(s) == Drop(s, SpanLen(s, {" ", "\t"}))
multispace0(s) == Drop(s, SpanLen(s, Whitespace))

\* char(c)
Char(c, s) == IF StartsWith(s, <<c>>) THEN Ok(Drop(s, 1), <<>>) ELSE Error(s)

\* The first n characters of s; an Error if there is none to take.
Take1(s, n) == IF n = 0 THEN Error(s) ELSE Ok(Drop(s, n), Take(s, n))

is_not(s, C) == Take1(s, NotSpanLen(s, C))
take_while1(s, C) == Take1(s, SpanLen(s, C))

\* terminated(p, char(c)) with r the result of p.
ThenChar(r, c) ==
    IF r.t # "Ok" THEN r
    ELSE IF StartsWith(r.rest, <<c>>) THEN Ok(Drop(r.rest, 1), r.val)
    ELSE Error(r.rest)

\* terminated(p, space0) with r the result of p.
ThenSpace0(r) == IF r.t # "Ok" THEN r ELSE Ok(space0(r.rest), r.val)

\* line_ending: "\n" or "\r\n".
LineEnding(s) ==
    IF StartsWith(s, <<"\n">>) THEN Ok(Drop(s, 1), <<>>)
    ELSE IF StartsWith(s, <<"\r", "\n">>) THEN Ok(Drop(s, 2), <<>>)
    ELSE Error(s)

----------------------------------------------------------------------------
(* parser/blocks/container.rs: the params block of an opening line. *)

\* parse_quoted_string with the quotes kept in the value.
quoted_with_quotes(r) ==
    IF r.t # "Ok" THEN r ELSE Ok(r.rest, <<QUOTE>> \o r.val \o <<QUOTE>>)

parse_quoted_string_quotes_kept(input) ==
    IF StartsWith(input, <<QUOTE>>)
    THEN quoted_with_quotes(ThenChar(is_not(Drop(input, 1), {QUOTE}), QUOTE))
    ELSE Error(input)

\* delimited(char('"'), is_not("\""), char('"')): is_not needs one character.
parse_quoted_string(input) ==
    IF StartsWith(input, <<QUOTE>>)
    THEN ThenChar(is_not(Drop(input, 1), {QUOTE}), QUOTE)
    ELSE Error(input)

\* take_while1(alphanumeric, '-', '_')
parse_unquoted_string(input) == take_while1(input, WordChars)

\* alt((parse_quoted_string, parse_unquoted_string))
parse_value(input) ==
    Alt(parse_quoted_string(input), parse_unquoted_string(input))

\* (space0, char('='), space0)
pair_separator(s) == ThenSpace0(Char("=", space0(s)))

\* The pair of key and the result v of cut(parse_value).
pair_value(key, v) ==
    IF v.t # "Ok" THEN v ELSE Ok(v.rest, <<key, v.val>>)

\* The value after the result sep of the separator.
pair_after_separator(key, sep) ==
    IF sep.t # "Ok" THEN sep
    ELSE pair_value(key, Cut(parse_value(sep.rest)))

\* The separator and the value after the result k of the key.
pair_after_key(k) ==
    IF k.t # "Ok" THEN k
    ELSE pair_after_separator(k.val, pair_separator(k.rest))

\* separated_pair(key, (space0, char('='), space0), cut(parse_value))
parse_key_value_pair(input) ==
    pair_after_key(take_while1(input, WordChars))

\* The loop of separated_list0(multispace1, parse_key_value_pair) after the
\* first pair: a separator with no pair after it is not consumed; a Failure
\* is handed on.
RECURSIVE separated_list_more(_, _)

\* One more pair, p being the result of the pair recognizer after the
\* separator that follows input.
separated_list_next(input, acc, p) ==
    IF p.t = "Error" THEN Ok(input, acc)
    ELSE IF p.t = "Failure" THEN p
    ELSE separated_list_more(p.rest, Append(acc, p.val))

separated_list_more(input, acc) ==
    IF SpanLen(input, Whitespace) = 0 THEN Ok(input, acc)
    ELSE separated_list_next(input, acc,
                             parse_key_value_pair(multispace0(input)))

\* The list, p being the result of the pair recognizer at input.
separated_list_first(input, p) ==
    IF p.t = "Error" THEN Ok(input, <<>>)
    ELSE IF p.t = "Failure" THEN p
    ELSE separated_list_more(p.rest, <<p.val>>)

\* separated_list0(multispace1, parse_key_value_pair)
separated_list0(input) ==
    separated_list_first(input, parse_key_value_pair(input))

\* preceded(multispace0, char('}')) after the result l of the list.
params_close(l) ==
    IF l.t # "Ok" THEN l ELSE ThenChar(Ok(multispace0(l.rest), l.val), "}")

\* delimited(char('{'), preceded(multispace0, separated_list0(..)),
\*           preceded(multispace0, char('}')))
parse_container_params(input) ==
    IF StartsWith(input, <<"{">>)
    THEN params_close(separated_list0(multispace0(Drop(input, 1))))
    ELSE Error(input)

----------------------------------------------------------------------------
(* parser/blocks/container.rs: the container recognizer, up to the nested  *)
(* block parse of its body.                                                *)

Fence == <<":", ":", ":">>

\* many_m_n(0, 3, char(' ')): at most three spaces, as many as there are.
many_m_n_spaces(input) ==
    IF SpanLen(input, {" "}) > 3 THEN 3 ELSE SpanLen(input, {" "})

\* The line ending of line_terminated, le, after the text of the line.
line_end(text, le) == IF le.t = "Ok" THEN Ok(le.rest, text) ELSE le

\* not_line_ending, n characters long, then a line ending or the end of the
\* input.
line_rest(a, n) ==
    IF n = Len(a) THEN Ok(<<>>, a)
    ELSE line_end(Take(a, n), LineEnding(Drop(a, n)))

\* line_terminated(preceded(tag(":::"), not_line_ending)): the text after
\* ":::" up to the end of the line.
opening_line(input) ==
    IF StartsWith(input, Fence)
    THEN line_rest(Drop(input, 3), NotSpanLen(Drop(input, 3), {"\r", "\n"}))
    ELSE Error(input)

\* tag(":::")
fence_tag(a) == IF StartsWith(a, Fence) THEN Ok(Drop(a, 3), <<>>) ELSE Error(a)

\* preceded(many_m_n(0, 3, char(' ')), tag(":::"))
closing_fence(input) == fence_tag(Drop(input, many_m_n_spaces(input)))

\* many_till(anychar, closing_fence) with n characters taken by anychar so
\* far: the fence is tried at every character position, not only at the
\* start of a line.
RECURSIVE many_till(_, _)

\* c is the result of the fence after n characters.
many_till_step(input, n, c) ==
    IF c.t = "Ok" THEN Ok(c.rest, Take(input, n))
    ELSE IF n >= Len(input) THEN Error(<<>>)
    ELSE many_till(input, n + 1)

many_till(input, n) == many_till_step(input, n, closing_fence(Drop(input, n)))

\* nested_state with the kind pushed onto a stack that keeps a mark of the
\* nesting below it.
nested_state_marked(st, kind) == Append(Append(st, kind), kind)

\* state.nested() with the kind pushed: the state the body is parsed under.
nested_state(st, kind) == Append(st, kind)

\* The kind, the params and the body text, mt being the result of many_till.
container_body(kind, params, mt) ==
    IF mt.t # "Ok" THEN mt
    ELSE Ok(mt.rest, [kind |-> kind, params |-> params, inner |-> mt.val])

\* container_trailing without the check.
container_trailing_unchecked(kind, ps, input) ==
    IF ps.t # "Ok" THEN ps
    ELSE container_body(Trim(kind), ps.val, many_till(input, 0))

\* The check for trailing content after the result ps of the params, then
\* the body, which starts at input.
container_trailing(kind, ps, input) ==
    IF ps.t # "Ok" THEN ps
    ELSE IF ~IsBlank(ps.rest) THEN Error(input)
    ELSE container_body(Trim(kind), ps.val, many_till(input, 0))

\* The params block, if the rest of the opening line starts with one.
container_params(remainder) ==
    IF StartsWith(remainder, <<"{">>) THEN parse_container_params(remainder)
    ELSE Ok(remainder, <<>>)

\* recognize(is_not("{ \t\r\n")), kn characters long, then space0 and the
\* params.
container_kind(line, kn, input) ==
    IF kn = 0 THEN Error(line)
    ELSE container_trailing(Take(line, kn),
                            container_params(space0(Drop(line, kn))), input)

\* The opening line ol taken apart.
container_line(ol) ==
    IF ol.t # "Ok" THEN ol
    ELSE container_kind(ol.val,
                        NotSpanLen(ol.val, {"{", " ", "\t", "\r", "\n"}),
                        ol.rest)

\* container_open with a guard that lets one level of nesting through.
container_open_nested_once(st, input) ==
    IF Len(st) > 1 THEN Error(input)
    ELSE container_line(opening_line(Drop(input, many_m_n_spaces(input))))

\* container(state)(input) up to and including many_till: Ok carries the
\* input after the closing ":::" and the kind, the params and the body text.
container_open(st, input) ==
    IF st # <<>> THEN Error(input)
    ELSE container_line(opening_line(Drop(input, many_m_n_spaces(input))))

Container(kind, params, blocks) ==
    [b |-> "Container", kind |-> kind, params |-> params, blocks |-> blocks]

----------------------------------------------------------------------------
(* The inline parser applied to a paragraph's text. *)

Text(s) == [i |-> "Text", s |-> s, c |-> <<>>]
Emphasis(c) == [i |-> "Emphasis", s |-> <<>>, c |-> c]
Strong(c) == [i |-> "Strong", s |-> <<>>, c |-> c]

Delims == {"*", "_"}

\* The characters before position i and at position i of the span; its two
\* ends count as whitespace.
char_before(s, i) == IF i <= 1 THEN " " ELSE s[i - 1]
char_at(s, i) == IF i > Len(s) THEN " " ELSE s[i]

\* A delimiter run between the characters prev and next.
left_flanking(prev, next) ==
    /\ next \notin Whitespace
    /\ (next \notin Punctuation \/ prev \in Whitespace \cup Punctuation)

right_flanking(prev, next) ==
    /\ prev \notin Whitespace
    /\ (prev \notin Punctuation \/ next \in Whitespace \cup Punctuation)

\* The intraword rule with no exception for any delimiter.
intraword_ok_always(d, c) == TRUE

\* The intraword rule applied to asterisks too.
intraword_ok_all_delims(d, c) == c \notin Alphanumeric

\* The intraword rule: an underscore run next to the alphanumeric c, before
\* it when opening and after it when closing, is no delimiter; asterisk
\* runs are not restricted.
intraword_ok(d, c) == d = "_" => c \notin Alphanumeric

can_open(d, prev, next) == left_flanking(prev, next) /\ intraword_ok(d, prev)

can_close(d, prev, next) == right_flanking(prev, next) /\ intraword_ok(d, next)

\* The length of the delimiter run that starts at position i.
run_len(s, i) == SpanLen(Drop(s, i - 1), {s[i]})

\* The position at or after j of the nearest run of d that can close a run
\* of k, or 0.
RECURSIVE find_closer(_, _, _, _)
find_closer(s, d, k, j) ==
    IF j > Len(s) THEN 0
    ELSE IF s[j] # d THEN find_closer(s, d, k, j + 1)
    ELSE IF /\ run_len(s, j) >= k
            /\ can_close(d, char_before(s, j), char_at(s, j + run_len(s, j)))
         THEN j
    ELSE find_closer(s, d, k, j + run_len(s, j))

\* The closer of the run of n at position i, or 0: the run must be able to
\* open and enclose some text.
closer_of(s, i, n) ==
    IF n > 3 \/ ~can_open(s[i], char_before(s, i), char_at(s, i + n)) THEN 0
    ELSE find_closer(s, s[i], n, i + n + 1)

\* emphasis_node with Emphasis outermost for a run of three.
emphasis_node_em_outside(k, content) ==
    IF k = 1 THEN Emphasis(content)
    ELSE IF k = 2 THEN Strong(content)
    ELSE Emphasis(<<Strong(content)>>)

\* One delimiter on each side gives Emphasis, two Strong, three Strong
\* around Emphasis.
emphasis_node(k, content) ==
    IF k = 1 THEN Emphasis(content)
    ELSE IF k = 2 THEN Strong(content)
    ELSE Strong(<<Emphasis(content)>>)

\* push_text with every piece of text a node of its own.
push_text_apart(acc, chars) == Append(acc, Text(chars))

\* Plain text is merged into the Text node before it.
push_text(acc, chars) ==
    IF acc # <<>> /\ acc[Len(acc)].i = "Text"
    THEN [acc EXCEPT ![Len(acc)].s = @ \o chars]
    ELSE Append(acc, Text(chars))

\* The inline nodes of s from position i on, after the nodes acc.
RECURSIVE inline_scan(_, _, _)

\* The run of n at position i with its closer at c: the text between them is
\* parsed in turn; a run with no closer (c = 0) is literal text.
inline_run(s, i, acc, n, c) ==
    IF c = 0 THEN inline_scan(s, i + n, push_text(acc, SubSeq(s, i, i + n - 1)))
    ELSE inline_scan(s, c + n,
             Append(acc, emphasis_node(n,
                 inline_scan(SubSeq(s, i + n, c - 1), 1, <<>>))))

inline_scan(s, i, acc) ==
    IF i > Len(s) THEN acc
    ELSE IF s[i] \in Delims
         THEN inline_run(s, i, acc, run_len(s, i), closer_of(s, i, run_len(s, i)))
    ELSE inline_scan(s, i + 1, push_text(acc, <<s[i]>>))

inline_many(s) == inline_scan(s, 1, <<>>)

----------------------------------------------------------------------------
(* The block recognizers tried after the container recognizer declined:    *)
(* blank line, bullet list, paragraph.                                     *)

Paragraph(inlines) == [b |-> "Paragraph", inlines |-> inlines]
List(marker, items) == [b |-> "List", marker |-> marker, items |-> items]
ListItem(blocks) == [task |-> "None", blocks |-> blocks]

line_len(s) == NotSpanLen(s, {"\r", "\n"})
first_line(s) == Take(s, line_len(s))

\* The text after the first line of s and its line ending.
after_line(s) == Alt(LineEnding(Drop(s, line_len(s))),
                     Ok(Drop(s, line_len(s)), <<>>)).rest

\* A bullet list item starts with the marker and a space.
list_item_start(s) == StartsWith(s, <<"*", " ">>)

\* The start condition of the container recognizer: ":::" indented by at
\* most three spaces.
container_start(s) == StartsWith(Drop(s, many_m_n_spaces(s)), Fence)

\* A list item whose text is parsed as a paragraph.
list_item(text) == ListItem(<<Paragraph(inline_many(Trim(text)))>>)

\* The items of a bullet list: one per consecutive line that starts with the
\* marker.
RECURSIVE list_items(_, _)
list_items(input, acc) ==
    IF ~list_item_start(input) THEN Ok(input, acc)
    ELSE list_items(after_line(input),
                    Append(acc, list_item(Drop(first_line(input), 2))))

\* Whether the paragraph ends before the text next, which follows a line of
\* it: at the end of the input, at a blank line, at the start of another
\* block.
paragraph_stops(next) ==
    \/ IsBlank(first_line(next))
    \/ list_item_start(next)
    \/ container_start(next)

\* The length of the paragraph that starts at input and holds the line at
\* offset n: the first line, then every line up to one that stops it.
RECURSIVE paragraph_end(_, _)

\* next is the text after the line at offset n.
paragraph_next(input, n, next) ==
    IF paragraph_stops(next) THEN n + line_len(Drop(input, n))
    ELSE paragraph_end(input, Len(input) - Len(next))

paragraph_end(input, n) == paragraph_next(input, n, after_line(Drop(input, n)))

\* The paragraph of the first m characters of input.
paragraph_of(input, m) ==
    Ok(after_line(Drop(input, m)),
       <<Paragraph(inline_many(Trim(Take(input, m))))>>)

paragraph(input) == paragraph_of(input, paragraph_end(input, 0))

\* The list made of the result l of list_items.
list_of(l) == Ok(l.rest, <<List("Star", l.val)>>)

\* other_block with the paragraph tried before the list.
other_block_paragraph_first(input) ==
    IF input = <<>> THEN Error(input)
    ELSE IF IsBlank(first_line(input)) THEN Ok(after_line(input), <<>>)
    ELSE paragraph(input)

\* alt((blank_line, list, paragraph)): the blocks recognized at input.
other_block(input) ==
    IF input = <<>> THEN Error(input)
    ELSE IF IsBlank(first_line(input)) THEN Ok(after_line(input), <<>>)
    ELSE IF list_item_start(input) THEN list_of(list_items(input, <<>>))
    ELSE paragraph(input)

----------------------------------------------------------------------------
(* The input: lines typed one after the other. *)

LOpenN == Fence \o <<"n">>
LOpenW == Fence \o <<"w">>
LClose == Fence
LClose3 == <<" ", " ", " ">> \o Fence
LClose4 == <<" ", " ", " ", " ">> \o Fence
LText == <<"H">>
LMid == <<"a", " ">> \o Fence \o <<" ", "b">>
LTrail == LOpenN \o <<" ", "x">>
LParamsTrail == LOpenN \o <<"{", "a", "=", "b", "}", " ", "x">>
LSpace == LOpenN \o <<" ">>
LParams == LOpenN \o <<"{", "a", "=", "b", "}">>
LNoValue == LOpenN \o <<"{", "a", "=", "}">>
LEmptyQuoted == LOpenN \o <<"{", "a", "=", QUOTE, QUOTE, "}">>
LList == <<"*", " ", "a", " ", "*">>
LBlank == <<>>

LineSet ==
    {LOpenN, LOpenW, LClose, LClose3, LClose4, LText, LMid, LTrail,
     LParamsTrail, LSpace, LParams, LNoValue, LEmptyQuoted, LList, LBlank}

\* The container stacks a parse is started with: the default state's and a
\* state with a container already active.
Seeds == {<<>>, <<(<<"w">>)>>}

RECURSIVE JoinLines(_, _)
JoinLines(ls, last_eol) ==
    IF ls = <<>> THEN <<>>
    ELSE IF Len(ls) = 1 THEN ls[1] \o (IF last_eol THEN <<NL>> ELSE <<>>)
    ELSE ls[1] \o <<NL>> \o JoinLines(Tail(ls), last_eol)

InputText == JoinLines(lines, eol)

----------------------------------------------------------------------------
(* The parse: many0(block(state)) calls, one frame for each. *)

NoPend == [kind |-> <<>>, params |-> <<>>, after |-> <<>>]
NoImage == [t |-> "None", rest |-> <<>>, val |-> <<>>]
NoOpening == [t |-> "None", rest |-> <<>>, val |-> <<>>]
NoCall == [st |-> <<>>, at |-> <<>>, out |-> "None", rest |-> <<>>, got |-> <<>>]
Call(st, at, out, rest, got) ==
    [st |-> st, at |-> at, out |-> out, rest |-> rest, got |-> got]

Frame(st, rest, pend) ==
    [st |-> st, rest |-> rest, blocks |-> <<>>, pend |-> pend]

\* block(state)(input) returns Error: the enclosing many0 ends.
block_fails(st, input) ==
    container_open(st, input).t = "Error" /\ other_block(input).t = "Error"

\* The frame f after a recognizer consumed up to rest and yielded blocks.
advance(f, rest, blocks) ==
    [f EXCEPT !.rest = rest, !.blocks = @ \o blocks]

\* enter_body with the kind pushed onto the caller's own state.
enter_body_shared(fs, c) ==
    Append([fs EXCEPT ![Len(fs)].st = nested_state(@, c.val.kind)],
           Frame(nested_state(fs[Len(fs)].st, c.val.kind), c.val.inner,
                 [kind |-> c.val.kind, params |-> c.val.params,
                  after |-> c.rest]))

\* The frames once the container recognizer has found its opening line and
\* its closing fence in the innermost frame: the body is parsed by a new
\* many0(block(nested_state)); the state of the caller is left as it is.
enter_body(fs, c) ==
    Append(fs, Frame(nested_state(fs[Len(fs)].st, c.val.kind), c.val.inner,
                     [kind |-> c.val.kind, params |-> c.val.params,
                      after |-> c.rest]))

\* container_result without the final line_ending consumed.
container_result_no_eol(f, le) ==
    IF le.t = "Ok"
    THEN Ok(f.pend.after,
            <<Container(f.pend.kind, f.pend.params, f.blocks)>>)
    ELSE le

\* The result of the container recognizer once the body f is parsed: the
\* Container, if a line ending follows the closing fence (le).
container_result(f, le) ==
    IF le.t = "Ok"
    THEN Ok(le.rest, <<Container(f.pend.kind, f.pend.params, f.blocks)>>)
    ELSE le

container_close(f) == container_result(f, LineEnding(f.pend.after))

Init ==
    /\ lines = <<>>
    /\ eol = TRUE
    /\ seed = <<>>
    /\ pc = "edit"
    /\ frames = <<>>
    /\ doc = <<>>
    /\ tried = NoCall
    /\ span = <<>>
    /\ ph = "idle"
    /\ inl = <<>>
    /\ ast = <<>>
    /\ made = 0
    /\ op = "none"
    /\ res = <<>>
    /\ tail = <<>>
    /\ typed = 0
    /\ iph = "idle"
    /\ img = NoImage
    /\ opening = <<>>
    /\ odecl = <<>>
    /\ oph = "idle"
    /\ opened = NoOpening
    /\ ea = <<>>
    /\ eb = <<>>
    /\ eph = "a"
    /\ eres = <<>>

\* A line is typed, followed by a line ending or, as the last line, not.
TypeLine(l, e) ==
    /\ pc = "edit"
    /\ eol
    /\ Len(lines) < MaxLines
    /\ Len(InputText) + Len(l) + 1 <= MaxLen
    /\ lines' = Append(lines, l)
    /\ eol' = e
    /\ UNCHANGED <<seed, pc, frames, doc, tried>>
    /\ UNCHANGED <<inlineVars, treeVars, imageVars, paramVars, escapeVars>>

\* parse_markdown(state, input) is called.
StartParse(s) ==
    /\ pc = "edit"
    /\ seed' = s
    /\ pc' = "parse"
    /\ frames' = <<Frame(s, InputText, NoPend)>>
    /\ UNCHANGED <<lines, eol, doc, tried>>
    /\ UNCHANGED <<inlineVars, treeVars, imageVars, paramVars, escapeVars>>

\* The step of block(state) on the innermost frame f = frames[n], c being
\* the result of the container recognizer up to its body and o the result
\* of the other recognizers.
BlockStep(n, f, c, o) ==
    CASE c.t = "Failure" ->
           /\ pc' = "failure"
           /\ frames' = <<>>
           /\ tried' = Call(f.st, f.rest, "Failure", c.rest, <<>>)
      [] c.t = "Ok" ->
           /\ pc' = pc
           /\ frames' = enter_body(frames, c)
           /\ tried' = Call(f.st, f.rest, "Open", c.rest, <<>>)
      [] OTHER ->
           /\ pc' = pc
           /\ frames' = [frames EXCEPT ![n] = advance(f, o.rest, o.val)]
           /\ tried' = Call(f.st, f.rest, "Error", c.rest, o.val)

\* block(state) at the position of the innermost many0: the container
\* recognizer first; alt goes on to the other recognizers after an Error and
\* hands a Failure on, which ends the whole parse.
Block ==
    /\ pc = "parse"
    /\ ~block_fails(frames[Len(frames)].st, frames[Len(frames)].rest)
    /\ BlockStep(Len(frames), frames[Len(frames)],
                 container_open(frames[Len(frames)].st,
                                frames[Len(frames)].rest),
                 other_block(frames[Len(frames)].rest))
    /\ UNCHANGED <<lines, eol, seed, doc>>
    /\ UNCHANGED <<inlineVars, treeVars, imageVars, paramVars, escapeVars>>

\* The caller's frame p and the call record once the container recognizer
\* returned c: alt takes its Container or goes on to the result o of the
\* other recognizers.
ReturnStep(n, p, c, r) ==
    /\ frames' = [Take(frames, n - 1) EXCEPT
                     ![n - 1] = advance(p, r.rest, r.val)]
    /\ tried' = Call(p.st, p.rest, c.t, c.rest, r.val)

\* The many0 of a body ends: the container recognizer returns to the block
\* dispatcher of the enclosing frame, which goes on to the other
\* recognizers if it returns an Error.
Return ==
    /\ pc = "parse"
    /\ Len(frames) > 1
    /\ block_fails(frames[Len(frames)].st, frames[Len(frames)].rest)
    /\ ReturnStep(Len(frames), frames[Len(frames) - 1],
                  container_close(frames[Len(frames)]),
                  Alt(container_close(frames[Len(frames)]),
                      other_block(frames[Len(frames) - 1].rest)))
    /\ UNCHANGED <<lines, eol, seed, pc, doc>>
    /\ UNCHANGED <<inlineVars, treeVars, imageVars, paramVars, escapeVars>>

\* The outermost many0 ends: terminated(many0(block), (empty_lines, eof)).
Finish ==
    /\ pc = "parse"
    /\ Len(frames) = 1
    /\ block_fails(frames[1].st, frames[1].rest)
    /\ pc' = IF IsBlank(frames[1].rest) THEN "done" ELSE "error"
    /\ doc' = IF IsBlank(frames[1].rest) THEN frames[1].blocks ELSE <<>>
    /\ frames' = <<>>
    /\ UNCHANGED <<lines, eol, seed, tried>>
    /\ UNCHANGED <<inlineVars, treeVars, imageVars, paramVars, escapeVars>>

Next ==
    \/ \E l \in LineSet, e \in BOOLEAN : TypeLine(l, e)
    \/ \E s \in Seeds : StartParse(s)
    \/ Block
    \/ Return
    \/ Finish

Spec == Init /\ [][Next]_vars

----------------------------------------------------------------------------
(* The inline parser on its own: a span is composed of a word, delimiter   *)
(* runs around it, text before and after, an enclosing pair of runs and a  *)
(* second delimited word, and then parsed.                                 *)

Words == {<<"a">>, <<"b", "c">>}
Befores == {<<>>, <<"a">>, <<"a", " ">>, <<"a", "_">>, <<".">>}
Afters == {<<>>, <<"b">>, <<"c", "a">>, <<" ", "b">>, <<"_", "b">>, <<".">>}
Segments == {<<"_", "b", "_">>, <<"_", "_", "b", "_", "_">>, <<"a", "_", "b">>}

Rep(d, k) == [i \in 1..k |-> d]

PhaseRank(p) ==
    CASE p = "idle" -> 0
      [] p = "word" -> 1
      [] p = "delimited" -> 2
      [] p = "context" -> 3
      [] p = "enclosed" -> 4
      [] p = "joined" -> 5
      [] OTHER -> 6

\* The span becomes text, in phase p.
Compose(text, p) ==
    /\ PhaseRank(ph) < PhaseRank(p)
    /\ Len(text) <= MaxSpan
    /\ span' = text
    /\ ph' = p
    /\ UNCHANGED inl
    /\ UNCHANGED <<blockVars, treeVars, imageVars, paramVars, escapeVars>>

Word(w) == ph = "idle" /\ Compose(w, "word")

Delimit(d, ko, kc) ==
    ph = "word" /\ Compose(Rep(d, ko) \o span \o Rep(d, kc), "delimited")

Context(before, after) ==
    ph # "idle" /\ Compose(before \o span \o after, "context")

Enclose(d, k) ==
    ph # "idle" /\ Compose(Rep(d, k) \o span \o Rep(d, k), "enclosed")

Join(seg) == ph # "idle" /\ Compose(span \o <<" ">> \o seg, "joined")

\* The inline parser is applied to the span.
ParseInline ==
    /\ ph \notin {"idle", "parsed"}
    /\ inl' = inline_many(span)
    /\ ph' = "parsed"
    /\ UNCHANGED span
    /\ UNCHANGED <<blockVars, treeVars, imageVars, paramVars, escapeVars>>

NextInline ==
    \/ \E w \in Words : Word(w)
    \/ \E d \in Delims, ko \in 0..3, kc \in 0..3 : Delimit(d, ko, kc)
    \/ \E before \in Befores, after \in Afters : Context(before, after)
    \/ \E d \in Delims, k \in 1..2 : Enclose(d, k)
    \/ \E seg \in Segments : Join(seg)
    \/ ParseInline

SpecInline == Init /\ [][NextInline]_vars

----------------------------------------------------------------------------
(* ast: the nodes of the document tree read by the consumers below.  A     *)
(* string is a sequence of one-character strings.                          *)

Heading(content) == [b |-> "Heading", kind |-> "Atx1", content |-> content]
BlockQuote(blocks) == [b |-> "BlockQuote", blocks |-> blocks]
ThematicBreak == [b |-> "ThematicBreak"]
Definition(label, destination) ==
    [b |-> "Definition", label |-> label, destination |-> destination,
     title |-> "None"]
FootnoteDefinition(label, blocks) ==
    [b |-> "FootnoteDefinition", label |-> label, blocks |-> blocks]
GitHubAlert(blocks) ==
    [b |-> "GitHubAlert", alert_type |-> "Note", blocks |-> blocks]
None == [some |-> FALSE]
Some(v) == [some |-> TRUE, v |-> v]

TableCell(content, colspan, removed) ==
    [content |-> content, colspan |-> colspan, rowspan |-> None,
     removed_by_extended_table |-> removed]
Table(rows, alignments) ==
    [b |-> "Table", rows |-> rows, alignments |-> alignments]

Link(destination, children) ==
    [i |-> "Link", destination |-> destination, title |-> "None",
     children |-> children]
LinkReference(label, text) ==
    [i |-> "LinkReference", label |-> label, text |-> text]
FootnoteReference(label) == [i |-> "FootnoteReference", label |-> label]

----------------------------------------------------------------------------
(* typst_printer/mod.rs: the indices built before anything is rendered.    *)

\* insert that keeps the value a key has already.
insert_if_absent(m, k, v) ==
    [x \in DOMAIN m \cup {k} |-> IF x \in DOMAIN m THEN m[x] ELSE v]

\* HashMap::insert: the value of key k is v, whatever it was before.
insert(m, k, v) ==
    [x \in DOMAIN m \cup {k} |-> IF x = k THEN v ELSE m[x]]

\* HashMap::get
get(m, k) == IF k \in DOMAIN m THEN Some(m[k]) ELSE None

EmptyMap == [x \in {} |-> x]

\* footnote_index, link_definitions and footnote_counter at the start.
NoIndices ==
    [footnote_index |-> EmptyMap, link_definitions |-> EmptyMap,
     footnote_counter |-> 1]

RECURSIVE process_blocks(_, _, _)
RECURSIVE process_items(_, _, _)

\* One iteration of the loop of process_blocks: only a list, a block quote
\* and an alert are descended into; the body of a footnote definition and
\* every other block, a container among them, are passed over.
process_block(block, acc) ==
    CASE block.b = "FootnoteDefinition" ->
           [acc EXCEPT
              !.footnote_index = insert(@, block.label, acc.footnote_counter),
              !.footnote_counter = @ + 1]
      [] block.b = "Definition" ->
           [acc EXCEPT !.link_definitions = insert(@, block.label, block)]
      [] block.b = "List" -> process_items(block.items, 1, acc)
      [] block.b = "BlockQuote" -> process_blocks(block.blocks, 1, acc)
      [] block.b = "GitHubAlert" -> process_blocks(block.blocks, 1, acc)
      [] OTHER -> acc

process_items(items, k, acc) ==
    IF k > Len(items) THEN acc
    ELSE process_items(items, k + 1, process_blocks(items[k].blocks, 1, acc))

process_blocks(blocks, k, acc) ==
    IF k > Len(blocks) THEN acc
    ELSE process_blocks(blocks, k + 1, process_block(blocks[k], acc))

get_indices(blocks) == process_blocks(blocks, 1, NoIndices)

\* State::new: the indices of the whole document.
State_new(blocks) == get_indices(blocks)

get_footnote_index(state, label) == get(state.footnote_index, label)

\* The first letter of a label of the documents below, in lower case.
to_lowercase(s) ==
    [k \in 1..Len(s) |-> IF s[k] = "E" THEN "e" ELSE s[k]]

\* A label with the case of its Text nodes folded.
normalized(label) ==
    [k \in 1..Len(label) |->
        IF label[k].i = "Text" THEN Text(to_lowercase(label[k].s))
        ELSE label[k]]

\* get_link_definition with labels compared case-insensitively.
get_link_definition_normalized(state, label) ==
    IF \E x \in DOMAIN state.link_definitions : normalized(x) = normalized(label)
    THEN Some(state.link_definitions[
             CHOOSE x \in DOMAIN state.link_definitions :
                 normalized(x) = normalized(label)])
    ELSE None

get_link_definition(state, label) == get(state.link_definitions, label)

----------------------------------------------------------------------------
(* typst_printer: the document rendered.  The output is the sequence of    *)
(* characters written, with Softline where the pretty-printer breaks the   *)
(* line or writes a space, as the width has it, and Hardline for a line    *)
(* break.                                                                  *)

Softline == "softline"
Hardline == "hardline"

\* util.rs, escape_latex: the replacement of one character.
escape_char(c) ==
    CASE c = "\\" -> <<"\\", "t", "e", "x", "t", "b", "a", "c", "k", "s", "l",
                       "a", "s", "h", "{", "}">>
      [] c = "{" -> <<"\\", "{">>
      [] c = "}" -> <<"\\", "}">>
      [] c = "$" -> <<"\\", "$">>
      [] c = "&" -> <<"\\", "&">>
      [] c = "%" -> <<"\\", "%">>
      [] c = "#" -> <<"\\", "#">>
      [] c = "^" -> <<"\\", "t", "e", "x", "t", "a", "s", "c", "i", "i", "c",
                      "i", "r", "c", "u", "m", "{", "}">>
      [] c = "_" -> <<"\\", "_">>
      [] c = "~" -> <<"\\", "t", "e", "x", "t", "a", "s", "c", "i", "i", "t",
                      "i", "l", "d", "e", "{", "}">>
      [] OTHER -> <<c>>

RECURSIVE escape_from(_, _)
escape_from(text, k) ==
    IF k > Len(text) THEN <<>>
    ELSE escape_char(text[k]) \o escape_from(text, k + 1)

\* escape_latex with the text it returns gone through once more.
escape_latex_again(text) == escape_from(escape_from(text, 1), 1)

escape_latex(text) == escape_from(text, 1)

\* util.rs, command without arguments: \name{content}
command(name, content) == <<"\\">> \o name \o <<"{">> \o content \o <<"}">>

\* util.rs, environment: \begin{name}[options], the content, \end{name};
\* options is None or Some of the text between the brackets.
environment_begin(name, options) ==
    <<"\\", "b", "e", "g", "i", "n", "{">> \o name \o <<"}">>
    \o (IF options.some THEN <<"[">> \o options.v \o <<"]">> ELSE <<>>)

environment(name, options, content) ==
    environment_begin(name, options) \o <<Hardline>> \o content
    \o <<Hardline, "\\", "e", "n", "d", "{">> \o name \o <<"}">>

\* format!("{index}")
Decimal(n) ==
    <<<<"0", "1", "2", "3", "4", "5", "6", "7", "8", "9">>[(n % 10) + 1]>>

RECURSIVE format_index(_)
format_index(n) ==
    IF n < 10 THEN Decimal(n) ELSE format_index(n \div 10) \o Decimal(n)

\* inline.rs, Inline::Text: text.replace('\n', " ")
replace_newlines(text) ==
    [k \in 1..Len(text) |-> IF text[k] = "\n" THEN " " ELSE text[k]]

\* split_with_spaces and the concat of its words, escaped, and of a Softline
\* for each run of whitespace: the step for one character.
split_step(c, result) ==
    IF c \in {" ", "\t"}
    THEN IF result = <<>> \/ result[Len(result)] # Softline
         THEN Append(result, Softline)
         ELSE result
    ELSE result \o escape_char(c)

RECURSIVE split_with_spaces(_, _, _)
split_with_spaces(s, k, result) ==
    IF k > Len(s) THEN result
    ELSE split_with_spaces(s, k + 1, split_step(s[k], result))

text_replaced_to_doc(text) ==
    IF \A k \in 1..Len(text) : text[k] \in {" ", "\t"}
    THEN escape_latex(text)
    ELSE split_with_spaces(text, 1, <<>>)

text_to_doc(text) == text_replaced_to_doc(replace_newlines(text))

\* \href{url}{text}
href(destination, text) ==
    command(<<"h", "r", "e", "f">>, escape_latex(destination))
    \o <<"{">> \o text \o <<"}">>

\* Inline::LinkReference: the link to the definition found, d, or the
\* fallback form.
link_reference_to_doc(d, text, label) ==
    IF d.some THEN href(d.v.destination, text)
    ELSE <<"[">> \o text \o <<"]", "[">> \o label \o <<"]">>

\* footnote_reference_to_doc with nothing written for a label not found.
footnote_reference_to_doc_dropped(x, label) ==
    IF x.some
    THEN command(<<"f", "o", "o", "t", "n", "o", "t", "e", "m", "a", "r", "k">>,
                 <<"[">> \o format_index(x.v) \o <<"]">>)
    ELSE <<>>

\* Inline::FootnoteReference: the mark with the index found, x, or the
\* fallback form.
footnote_reference_to_doc(x, label) ==
    IF x.some
    THEN command(<<"f", "o", "o", "t", "n", "o", "t", "e", "m", "a", "r", "k">>,
                 <<"[">> \o format_index(x.v) \o <<"]">>)
    ELSE <<"[", "^">> \o escape_latex(label) \o <<"]">>

RECURSIVE inlines_to_doc(_, _, _)

inline_to_doc(inline, state) ==
    CASE inline.i = "Text" -> text_to_doc(inline.s)
      [] inline.i = "Link" ->
           href(inline.destination, inlines_to_doc(inline.children, 1, state))
      [] inline.i = "LinkReference" ->
           link_reference_to_doc(get_link_definition(state, inline.label),
                                 inlines_to_doc(inline.text, 1, state),
                                 inlines_to_doc(inline.label, 1, state))
      [] inline.i = "Emphasis" ->
           command(<<"t", "e", "x", "t", "i", "t">>,
                   inlines_to_doc(inline.c, 1, state))
      [] inline.i = "Strong" ->
           command(<<"t", "e", "x", "t", "b", "f">>,
                   inlines_to_doc(inline.c, 1, state))
      [] inline.i = "FootnoteReference" ->
           footnote_reference_to_doc(get_footnote_index(state, inline.label),
                                     inline.label)
      [] OTHER -> <<>>

\* Vec<Inline>::to_doc: the concat of the inlines from the k-th on.
inlines_to_doc(inlines, k, state) ==
    IF k > Len(inlines) THEN <<>>
    ELSE inline_to_doc(inlines[k], state) \o inlines_to_doc(inlines, k + 1, state)

RECURSIVE blocks_to_doc(_, _, _)
RECURSIVE items_to_doc(_, _, _)

\* table.rs, create_column_spec
create_column_spec(alignments) ==
    [k \in 1..Len(alignments) |->
        CASE alignments[k] = "Center" -> "c"
          [] alignments[k] = "Right" -> "r"
          [] OTHER -> "l"]

\* table.rs, render_table_row from the k-th cell on: " & " before every
\* cell but the first, then the cell, whatever its flags are.
RECURSIVE render_table_cells(_, _, _)
render_table_cells(row, k, state) ==
    IF k > Len(row) THEN <<>>
    ELSE (IF k > 1 THEN <<" ", "&", " ">> ELSE <<>>)
         \o inlines_to_doc(row[k].content, 1, state)
         \o render_table_cells(row, k + 1, state)

render_table_row(row, state) ==
    render_table_cells(row, 1, state) \o <<" ", "\\", "\\">>

\* render_tabular: the data rows, from the k-th row on.
RECURSIVE render_data_rows(_, _, _)
render_data_rows(rows, k, state) ==
    IF k > Len(rows) THEN <<>>
    ELSE render_table_row(rows[k], state) \o <<Hardline>>
         \o render_data_rows(rows, k + 1, state)

render_header_row(rows, state) ==
    IF rows = <<>> THEN <<>>
    ELSE render_table_row(rows[1], state)
         \o <<Hardline, "\\", "h", "l", "i", "n", "e", Hardline>>

\* Table::to_doc with the default style, TableStyle::Tabular.
render_tabular(table, state) ==
    environment(<<"t", "a", "b", "u", "l", "a", "r">>,
                Some(create_column_spec(table.alignments)),
                render_header_row(table.rows, state)
                \o render_data_rows(table.rows, 2, state))

\* block.rs, Block::FootnoteDefinition: the text under the index found, x.
footnote_definition_to_doc(x, content) ==
    IF x.some
    THEN command(<<"f", "o", "o", "t", "n", "o", "t", "e", "t", "e", "x", "t">>,
                 <<"[">> \o format_index(x.v) \o <<"]", " ">> \o content)
    ELSE <<>>

\* block.rs, Block::to_doc.  The match has no arm for a Container.
block_to_doc(block, state) ==
    CASE block.b = "Paragraph" -> inlines_to_doc(block.inlines, 1, state)
      [] block.b = "Heading" ->
           command(<<"s", "e", "c", "t", "i", "o", "n">>,
                   inlines_to_doc(block.content, 1, state))
      [] block.b = "ThematicBreak" -> command(<<"h", "r", "u", "l", "e">>, <<>>)
      [] block.b = "BlockQuote" ->
           environment(<<"q", "u", "o", "t", "e">>, None,
                       blocks_to_doc(block.blocks, 1, state))
      [] block.b = "List" ->
           environment(<<"i", "t", "e", "m", "i", "z", "e">>, None,
                       items_to_doc(block.items, 1, state))
      [] block.b = "Definition" -> <<>>
      [] block.b = "Table" -> render_tabular(block, state)
      [] block.b = "FootnoteDefinition" ->
           footnote_definition_to_doc(get_footnote_index(state, block.label),
                                      blocks_to_doc(block.blocks, 1, state))
      [] block.b = "GitHubAlert" ->
           command(<<"f", "o", "o", "t", "n", "o", "t", "e">>,
                   <<"N", "o", "t", "e", ":", " ">>
                   \o blocks_to_doc(block.blocks, 1, state))
      [] OTHER -> <<>>

\* ListItem::to_doc for the items of a list from the k-th on.
items_to_doc(items, k, state) ==
    IF k > Len(items) THEN <<>>
    ELSE <<"\\", "i", "t", "e", "m", " ">>
         \o blocks_to_doc(items[k].blocks, 1, state) \o <<Hardline>>
         \o items_to_doc(items, k + 1, state)

\* Vec<&Block>::to_doc from the k-th block on: two line breaks between
\* blocks.
blocks_to_doc(blocks, k, state) ==
    IF k > Len(blocks) THEN <<>>
    ELSE (IF k > 1 THEN <<Hardline, Hardline>> ELSE <<>>)
         \o block_to_doc(blocks[k], state)
         \o blocks_to_doc(blocks, k + 1, state)

\* render_latex in a single pass: each block is rendered under the indices
\* of the blocks up to and including it.
RECURSIVE single_pass(_, _)
single_pass(blocks, k) ==
    IF k > Len(blocks) THEN <<>>
    ELSE (IF k > 1 THEN <<Hardline, Hardline>> ELSE <<>>)
         \o block_to_doc(blocks[k], get_indices(SubSeq(blocks, 1, k)))
         \o single_pass(blocks, k + 1)

render_latex_single_pass(blocks) == single_pass(blocks, 1)

\* render_latex: the indices first, then the document.
render_latex(blocks) == blocks_to_doc(blocks, 1, State_new(blocks))

\* The printer has an arm for every block of the document.
RECURSIVE Printable(_)
Printable(blocks) ==
    \A k \in 1..Len(blocks) :
        CASE blocks[k].b = "Container" -> FALSE
          [] blocks[k].b \in {"BlockQuote", "FootnoteDefinition", "GitHubAlert"} ->
               Printable(blocks[k].blocks)
          [] blocks[k].b = "List" ->
               \A j \in 1..Len(blocks[k].items) :
                   Printable(blocks[k].items[j].blocks)
          [] OTHER -> TRUE

----------------------------------------------------------------------------
(* ast_transform/transformer.rs: the 1-to-1 walk.  A transformer t is      *)
(* "Identity", which overrides no method of the trait,                     *)
(* "TextTransformer" (convenience.rs), which overrides transform_inline,   *)
(* or "HeadingTransformer", which overrides transform_heading.             *)

Transformers == {"Identity", "TextTransformer"}

\* The transformers that override a method the walk of a block calls.
Overriders == {"HeadingTransformer"}

\* The function handed to transform_text: |text| text.repeat(2), which
\* shows an application made twice.
func(text) == text \o text

RECURSIVE transform_inline(_, _)
RECURSIVE transform_block(_, _)

transform_inlines(t, inlines) ==
    [k \in 1..Len(inlines) |-> transform_inline(t, inlines[k])]

transform_blocks(t, blocks) ==
    [k \in 1..Len(blocks) |-> transform_block(t, blocks[k])]

\* walk_transform_text, the default of transform_text
walk_transform_text(text) == text

\* walk_transform_link, the default of transform_link
walk_transform_link(t, link) ==
    [link EXCEPT !.children = transform_inlines(t, @)]

\* walk_transform_inline that leaves the children of an inline alone.
walk_transform_inline_shallow(t, inline) == inline

walk_transform_inline(t, inline) ==
    CASE inline.i = "Emphasis" -> Emphasis(transform_inlines(t, inline.c))
      [] inline.i = "Strong" -> Strong(transform_inlines(t, inline.c))
      [] inline.i = "Link" -> walk_transform_link(t, inline)
      [] inline.i = "LinkReference" ->
           [inline EXCEPT !.label = transform_inlines(t, @),
                          !.text = transform_inlines(t, @)]
      [] inline.i = "Text" -> Text(walk_transform_text(inline.s))
      [] OTHER -> inline

transform_inline(t, inline) ==
    IF t = "TextTransformer" /\ inline.i = "Text" THEN Text(func(inline.s))
    ELSE walk_transform_inline(t, inline)

\* walk_transform_table_cell with a covered cell dropped from its row.
walk_transform_table_cell_dropped(t, cell) ==
    IF cell.removed_by_extended_table THEN <<>>
    ELSE <<[cell EXCEPT !.content = transform_inlines(t, @)]>>

\* walk_transform_table_cell, the default of transform_table_cell; the cell
\* as the one element that it is of its row.
walk_transform_table_cell(t, cell) ==
    <<[cell EXCEPT !.content = transform_inlines(t, @)]>>

\* walk_transform_table_row, the default of transform_table_row, from the
\* k-th cell on.
RECURSIVE walk_transform_table_row(_, _, _)
walk_transform_table_row(t, row, k) ==
    IF k > Len(row) THEN <<>>
    ELSE walk_transform_table_cell(t, row[k])
         \o walk_transform_table_row(t, row, k + 1)

\* walk_transform_list_item, the default of transform_list_item
walk_transform_list_item(t, item) ==
    [item EXCEPT !.blocks = transform_blocks(t, @)]

\* walk_transform_heading, the default of transform_heading
walk_transform_heading(t, heading) ==
    [heading EXCEPT !.content = transform_inlines(t, @)]

\* transform_heading: the default is walk_transform_heading; the override
\* of HeadingTransformer walks the heading and puts it one level down.
transform_heading(t, heading) ==
    IF t = "HeadingTransformer"
    THEN [walk_transform_heading(t, heading) EXCEPT !.kind = "Atx2"]
    ELSE walk_transform_heading(t, heading)

\* walk_transform_footnote_definition and walk_transform_github_alert
walk_transform_body(t, block) ==
    [block EXCEPT !.blocks = transform_blocks(t, @)]

walk_transform_block(t, block) ==
    CASE block.b \in {"Container", "FootnoteDefinition", "GitHubAlert"} ->
           walk_transform_body(t, block)
      [] block.b = "Paragraph" ->
           Paragraph(transform_inlines(t, block.inlines))
      [] block.b = "Heading" -> transform_heading(t, block)
      [] block.b = "BlockQuote" ->
           BlockQuote(transform_blocks(t, block.blocks))
      [] block.b = "List" ->
           [block EXCEPT !.items =
               [k \in 1..Len(@) |-> walk_transform_list_item(t, @[k])]]
      [] block.b = "Table" ->
           [block EXCEPT !.rows =
               [k \in 1..Len(@) |-> walk_transform_table_row(t, @[k], 1)]]
      [] block.b = "Definition" ->
           [block EXCEPT !.label = transform_inlines(t, @)]
      [] OTHER -> block

transform_block(t, block) == walk_transform_block(t, block)

\* walk_transform_document, the default of transform_document
walk_transform_document(t, blocks) == transform_blocks(t, blocks)

\* Document::transform_with
transform_with(blocks, t) == walk_transform_document(t, blocks)

----------------------------------------------------------------------------
(* ast_transform/visitor.rs: the read-only walk of a visitor that          *)
(* overrides visit_inline alone, records the node it is given and goes on  *)
(* with walk_inline.  The value is the sequence of the nodes recorded.     *)

RECURSIVE visit_inlines(_, _)
RECURSIVE visit_blocks(_, _)
RECURSIVE visit_items(_, _)
RECURSIVE visit_rows(_, _)
RECURSIVE visit_cells(_, _)

\* walk_inline: Emphasis and Strong, a link, a link reference (label, then
\* text); every other inline has no children to go to.
walk_inline(inline) ==
    CASE inline.i \in {"Emphasis", "Strong"} -> visit_inlines(inline.c, 1)
      [] inline.i = "Link" -> visit_inlines(inline.children, 1)
      [] inline.i = "LinkReference" ->
           visit_inlines(inline.label, 1) \o visit_inlines(inline.text, 1)
      [] OTHER -> <<>>

\* visit_inline as overridden
visit_inline(inline) == <<inline>> \o walk_inline(inline)

visit_inlines(inlines, k) ==
    IF k > Len(inlines) THEN <<>>
    ELSE visit_inline(inlines[k]) \o visit_inlines(inlines, k + 1)

\* walk_block.  The match has no arm for a Container: its body is not gone
\* into.
walk_block(block) ==
    CASE block.b = "Paragraph" -> visit_inlines(block.inlines, 1)
      [] block.b = "Heading" -> visit_inlines(block.content, 1)
      [] block.b \in {"BlockQuote", "FootnoteDefinition", "GitHubAlert"} ->
           visit_blocks(block.blocks, 1)
      [] block.b = "List" -> visit_items(block.items, 1)
      [] block.b = "Table" -> visit_rows(block.rows, 1)
      [] block.b = "Definition" -> visit_inlines(block.label, 1)
      [] OTHER -> <<>>

\* walk_list_item for the items from the k-th on
visit_items(items, k) ==
    IF k > Len(items) THEN <<>>
    ELSE visit_blocks(items[k].blocks, 1) \o visit_items(items, k + 1)

\* walk_table_cell for the cells of a row from the k-th on
visit_cells(row, k) ==
    IF k > Len(row) THEN <<>>
    ELSE visit_inlines(row[k].content, 1) \o visit_cells(row, k + 1)

\* walk_table_row for the rows from the k-th on
visit_rows(rows, k) ==
    IF k > Len(rows) THEN <<>>
    ELSE visit_cells(rows[k], 1) \o visit_rows(rows, k + 1)

\* walk_document, and the loops over blocks: visit_block for each
visit_blocks(blocks, k) ==
    IF k > Len(blocks) THEN <<>>
    ELSE walk_block(blocks[k]) \o visit_blocks(blocks, k + 1)

\* Document::visit_with
visit_with(blocks) == visit_blocks(blocks, 1)

----------------------------------------------------------------------------
(* The table of the block parser, as far as the cells of its rows go: a    *)
(* row is declared as cells, each with its content and the number of       *)
(* columns it spans; the cells it covers are recorded after it.            *)

Cell(content, colspan) == [content |-> content, colspan |-> colspan]

covered_cells(n) == [k \in 1..n |-> TableCell(<<>>, None, TRUE)]

\* extended_cell with no covered cells recorded.
extended_cell_alone(decl) ==
    <<TableCell(decl.content,
                IF decl.colspan > 1 THEN Some(decl.colspan) ELSE None, FALSE)>>

\* The cell declared and the cells it covers.
extended_cell(decl) ==
    <<TableCell(decl.content,
                IF decl.colspan > 1 THEN Some(decl.colspan) ELSE None, FALSE)>>
    \o covered_cells(decl.colspan - 1)

RECURSIVE table_row(_, _)
table_row(decls, k) ==
    IF k > Len(decls) THEN <<>>
    ELSE extended_cell(decls[k]) \o table_row(decls, k + 1)

\* A body row is cut or filled up with empty cells to n columns.
fit_row(row, n) ==
    IF Len(row) >= n THEN SubSeq(row, 1, n)
    ELSE row \o [k \in 1..(n - Len(row)) |-> TableCell(<<>>, None, FALSE)]

\* The table of a header row, the alignments of the delimiter row and the
\* body rows; no table unless the header has as many columns as the
\* delimiter row.
table_of(header, alignments, body) ==
    IF Len(header) # Len(alignments) THEN None
    ELSE Some(Table(<<header>>
                    \o [k \in 1..Len(body) |->
                           fit_row(table_row(body[k], 1), Len(alignments))],
                    alignments))

table(header, alignments, body) ==
    table_of(table_row(header, 1), alignments, body)

----------------------------------------------------------------------------
(* The consumers of the tree: a Document is put together block by block    *)
(* and one consumer is applied to it.                                      *)

Ex == <<Text(<<"e", "x">>)>>
ExUpper == <<Text(<<"E", "x">>)>>

\* The paragraph of a link reference to Ex and a footnote reference to n.
PRefs ==
    Paragraph(<<Text(<<"a", " ", "b">>),
                LinkReference(Ex, <<Text(<<"t">>)>>),
                FootnoteReference(<<"n">>)>>)

\* The same with the label in another case and another footnote label.
PRefsUpper ==
    Paragraph(<<LinkReference(ExUpper, <<Emphasis(<<Text(<<"t">>)>>)>>),
                FootnoteReference(<<"m", "_">>)>>)

DefEx == Definition(Ex, <<"u">>)
FootN == FootnoteDefinition(<<"n">>, <<Paragraph(<<Text(<<"c">>)>>)>>)
HLink == Heading(<<Strong(<<Link(<<"u">>, <<Text(<<"l">>)>>)>>)>>)

Leaves == {PRefs, PRefsUpper, DefEx, FootN, HLink, ThematicBreak}

Wrappers == {"BlockQuote", "List", "GitHubAlert", "FootnoteDefinition",
             "Container"}

HeaderRows ==
    {<<Cell(<<Text(<<"a">>)>>, 2)>>,
     <<Cell(<<Text(<<"a">>)>>, 1), Cell(<<Text(<<"b">>)>>, 1)>>,
     <<Cell(<<Text(<<"a">>)>>, 2), Cell(<<Text(<<"b">>)>>, 1)>>}

Alignments == {<<"Left", "None">>, <<"None", "Center", "Right">>}

BodyRows ==
    {<< <<Cell(<<Text(<<"c">>)>>, 1)>> >>,
     << <<Cell(<<Text(<<"c">>)>>, 1), Cell(<<Text(<<"t">>)>>, 2)>> >>}

\* The blocks wrapped into one block of kind w.
wrap(w, blocks) ==
    CASE w = "BlockQuote" -> BlockQuote(blocks)
      [] w = "List" -> List("Star", <<ListItem(blocks)>>)
      [] w = "GitHubAlert" -> GitHubAlert(blocks)
      [] w = "FootnoteDefinition" -> FootnoteDefinition(<<"f">>, blocks)
      [] OTHER -> Container(<<"n">>, <<>>, blocks)

\* The document gets one more step of construction.
Build(blocks) ==
    /\ op = "none"
    /\ made < MaxSteps
    /\ ast' = blocks
    /\ made' = made + 1
    /\ UNCHANGED <<op, res>>
    /\ UNCHANGED <<blockVars, inlineVars, imageVars, paramVars, escapeVars>>

AddBlock(b) == Build(Append(ast, b))

AddTable(t) == t.some /\ Build(Append(ast, t.v))

\* The last n blocks become the body of one block of kind w.
Wrap(w, n) ==
    /\ n <= Len(ast)
    /\ Build(Append(SubSeq(ast, 1, Len(ast) - n),
                    wrap(w, SubSeq(ast, Len(ast) - n + 1, Len(ast)))))

\* The consumer o is applied and returns r.
Apply(o, r) ==
    /\ op = "none"
    /\ op' = o
    /\ res' = r
    /\ UNCHANGED <<ast, made>>
    /\ UNCHANGED <<blockVars, inlineVars, imageVars, paramVars, escapeVars>>

\* State::new(config, &ast)
Index == Apply("index", State_new(ast))

\* render_latex(&ast, Config::default())
Render == Printable(ast) /\ Apply("render", render_latex(ast))

\* ast.transform_with(&mut t)
Transform(t) == Apply(t, transform_with(ast, t))

\* ast.visit_with(&mut visitor)
Visit == Apply("visit", visit_with(ast))

NextTree ==
    \/ \E b \in Leaves : AddBlock(b)
    \/ \E h \in HeaderRows, a \in Alignments, r \in BodyRows :
           AddTable(table(h, a, r))
    \/ \E w \in Wrappers, n \in 1..MaxSteps : Wrap(w, n)
    \/ Index
    \/ Render
    \/ \E t \in Transformers : Transform(t)
    \/ Visit

SpecTree == Init /\ [][NextTree]_vars

----------------------------------------------------------------------------
(* parser/inline/image.rs: the image recognizer with its attribute block.  *)

\* alpha1: the ASCII letters
Alpha ==
    {"a", "b", "c", "d", "e", "f", "g", "h", "i", "j", "k", "l", "m", "n",
     "o", "p", "q", "r", "s", "t", "u", "v", "w", "x", "y", "z",
     "A", "B", "C", "D", "E", "F", "G", "H", "I", "J", "K", "L", "M", "N",
     "O", "P", "Q", "R", "S", "T", "U", "V", "W", "X", "Y", "Z"}

\* take_until("\""): the text before the first double quote, which may be
\* empty; an Error if there is no double quote.
take_until_quote(s) ==
    IF NotSpanLen(s, {QUOTE}) = Len(s) THEN Error(s)
    ELSE Ok(Drop(s, NotSpanLen(s, {QUOTE})), Take(s, NotSpanLen(s, {QUOTE})))

\* delimited(char('"'), take_until("\""), char('"'))
quoted_value(input) ==
    IF StartsWith(input, <<QUOTE>>)
    THEN ThenChar(take_until_quote(Drop(input, 1)), QUOTE)
    ELSE Error(input)

\* take_while1(|c| !c.is_whitespace() && c != '}')
bare_value(input) == Take1(input, NotSpanLen(input, Whitespace \cup {"}"}))

\* The value of an attribute with the quoted form alone.
attribute_value_quoted_only(input) == quoted_value(input)

\* alt((quoted, bare)): the bare form is tried on the same input after an
\* Error of the quoted form.
attribute_value(input) == Alt(quoted_value(input), bare_value(input))

\* delimited(multispace0, char('='), multispace0)
key_value_separator(s) ==
    IF StartsWith(multispace0(s), <<"=">>)
    THEN Ok(multispace0(Drop(multispace0(s), 1)), <<>>)
    ELSE Error(s)

\* The pair of the key and the result v of the value.
key_value(key, v) == IF v.t # "Ok" THEN v ELSE Ok(v.rest, <<key, v.val>>)

\* The value after the result sep of the separator.
key_value_after_separator(key, sep) ==
    IF sep.t # "Ok" THEN sep ELSE key_value(key, attribute_value(sep.rest))

\* The separator and the value after the result k of the key.
key_value_after_key(k) ==
    IF k.t # "Ok" THEN k
    ELSE key_value_after_separator(k.val, key_value_separator(k.rest))

\* separated_pair(preceded(multispace0, alpha1), "=", value)
key_value_parser(input) ==
    key_value_after_key(take_while1(multispace0(input), Alpha))

\* The loop of separated_list0(multispace1, key_value_parser) after the
\* first pair: a separator with no pair after it is not consumed.
RECURSIVE key_values_more(_, _)

key_values_next(input, acc, p) ==
    IF p.t # "Ok" THEN Ok(input, acc)
    ELSE key_values_more(p.rest, Append(acc, p.val))

key_values_more(input, acc) ==
    IF SpanLen(input, Whitespace) = 0 THEN Ok(input, acc)
    ELSE key_values_next(input, acc, key_value_parser(multispace0(input)))

key_values_first(input, p) ==
    IF p.t # "Ok" THEN Ok(input, <<>>)
    ELSE key_values_more(p.rest, <<p.val>>)

\* separated_list0(multispace1, key_value_parser)
key_values(input) == key_values_first(input, key_value_parser(input))

\* ImageAttributes::default() and the loop over the pairs from the k-th on:
\* width and height are kept, the last of each; another key is passed over.
RECURSIVE image_attributes(_, _, _)
image_attributes(pairs, k, attrs) ==
    IF k > Len(pairs) THEN attrs
    ELSE image_attributes(pairs, k + 1,
             CASE pairs[k][1] = <<"w", "i", "d", "t", "h">> ->
                    [attrs EXCEPT !.width = Some(pairs[k][2])]
               [] pairs[k][1] = <<"h", "e", "i", "g", "h", "t">> ->
                    [attrs EXCEPT !.height = Some(pairs[k][2])]
               [] OTHER -> attrs)

\* preceded(multispace0, char('}')) after the result l of the list, and the
\* map to ImageAttributes.
attributes_close(l) ==
    IF StartsWith(multispace0(l.rest), <<"}">>)
    THEN Ok(Drop(multispace0(l.rest), 1),
            image_attributes(l.val, 1, [width |-> None, height |-> None]))
    ELSE Error(l.rest)

\* delimited(preceded(multispace0, char('{')),
\*           preceded(multispace0, separated_list0(..)),
\*           preceded(multispace0, char('}')))
attributes_parser(input) ==
    IF StartsWith(multispace0(input), <<"{">>)
    THEN attributes_close(key_values(multispace0(Drop(multispace0(input), 1))))
    ELSE Error(input)

\* opt(p) with r the result of p on input
Opt(input, r) == IF r.t = "Ok" THEN Ok(r.rest, Some(r.val)) ELSE Ok(input, None)

\* preceded(char('!'), delimited(char('['), take_while(|c| c != ']'),
\* char(']'))): the alt text.
image_alt(input) ==
    IF StartsWith(input, <<"!", "[">>)
    THEN ThenChar(Ok(Drop(input, 2 + NotSpanLen(Drop(input, 2), {"]"})),
                     Take(Drop(input, 2), NotSpanLen(Drop(input, 2), {"]"}))),
                  "]")
    ELSE Error(input)

\* link_destination for a destination written without angle brackets: the
\* text up to a whitespace or a parenthesis, one character at least.
link_destination(input) ==
    Take1(input, NotSpanLen(input, Whitespace \cup {"(", ")"}))

\* delimited(char('('), (preceded(multispace0, link_destination), opt(title)),
\* preceded(multispace0, char(')'))) for an image without title.
image_target(input) ==
    IF StartsWith(input, <<"(">>)
    THEN ThenChar(link_destination(multispace0(Drop(input, 1))), ")")
    ELSE Error(input)

\* Inline::Image(Image {destination, title, alt, attr})
Image(destination, alt, attr) ==
    [i |-> "Image", destination |-> destination, title |-> None,
     alt |-> alt, attr |-> attr]

\* The image built, with a the result of opt(attributes_parser).
image_built(alt, destination, a) ==
    Ok(a.rest, Image(destination, alt, a.val))

\* The attribute block after the result d of the target.
image_after_target(alt, d) ==
    IF d.t # "Ok" THEN d
    ELSE image_built(alt, d.val, Opt(d.rest, attributes_parser(d.rest)))

\* The target after the result a of the alt text.
image_after_alt(a) ==
    IF a.t # "Ok" THEN a ELSE image_after_target(a.val, image_target(a.rest))

image(input) == image_after_alt(image_alt(input))

----------------------------------------------------------------------------
(* The image recognizer applied to ![foo](/url) and what is typed after it. *)

ImageHead == <<"!", "[", "f", "o", "o", "]", "(", "/", "u", "r", "l", ")">>

W100pt == <<"1", "0", "0", "p", "t">>
H50pt == <<"5", "0", "p", "t">>

\* A value written between double quotes.
Quoted(v) == <<QUOTE>> \o v \o <<QUOTE>>

Openers == {<<"{">>, <<" ", "{">>, <<>>}

AttributeKeys ==
    {<<"w", "i", "d", "t", "h">>, <<"h", "e", "i", "g", "h", "t">>,
     <<"a", "l", "t">>}

\* Values as they are written: bare, between double quotes, with a
\* character that is no letter, digit, "-" or "_", with a double quote that
\* is never closed, and none at all.
AttributeValues ==
    {W100pt, H50pt, Quoted(W100pt), Quoted(H50pt),
     <<"5", "0", "%">>, <<"1", ".", "5", "e", "m">>, <<"a", "/", "b">>,
     <<QUOTE, "5", "0">>, <<>>}

\* The attributes typed: width and height with every value, a key that is
\* neither, a pair with spaces around "=" and a key alone.
AttributeTexts ==
    {k \o <<"=">> \o v : k \in {<<"w", "i", "d", "t", "h">>,
                                <<"h", "e", "i", "g", "h", "t">>},
                          v \in AttributeValues}
    \cup {<<"a", "l", "t", "=">> \o W100pt,
          <<"a", "l", "t", "=", "5", "0", "%">>,
          <<"w", "i", "d", "t", "h", " ", "=", " ">> \o W100pt,
          <<"w", "i", "d", "t", "h">>}

\* The closing brace, with the text after it, or none.
Trailing == {<<>>, <<"x">>}

Closers == {<<"}">>, <<" ", "}">>, <<"}", "x">>, <<>>}

\* What stands right after the ")".
Brace(o) ==
    /\ iph = "idle"
    /\ tail' = o
    /\ iph' = "attributes"
    /\ UNCHANGED <<typed, img>>
    /\ UNCHANGED <<blockVars, inlineVars, treeVars, paramVars, escapeVars>>

\* One more attribute, a space between it and the one before.
Attribute(p) ==
    /\ iph = "attributes"
    /\ typed < MaxAttributes
    /\ tail' = tail \o (IF typed > 0 THEN <<" ">> ELSE <<>>) \o p
    /\ typed' = typed + 1
    /\ UNCHANGED <<iph, img>>
    /\ UNCHANGED <<blockVars, inlineVars, treeVars, paramVars, escapeVars>>

\* The end of the block and the text that follows it.
CloseBrace(c) ==
    /\ iph = "attributes"
    /\ tail' = tail \o c
    /\ iph' = "typed"
    /\ UNCHANGED <<typed, img>>
    /\ UNCHANGED <<blockVars, inlineVars, treeVars, paramVars, escapeVars>>

\* image(state)(input)
ParseImage ==
    /\ iph = "typed"
    /\ img' = image(ImageHead \o tail)
    /\ iph' = "parsed"
    /\ UNCHANGED <<tail, typed>>
    /\ UNCHANGED <<blockVars, inlineVars, treeVars, paramVars, escapeVars>>

NextImage ==
    \/ \E o \in Openers : Brace(o)
    \/ \E p \in AttributeTexts : Attribute(p)
    \/ \E c \in Closers : CloseBrace(c)
    \/ ParseImage

SpecImage == Init /\ [][NextImage]_vars

----------------------------------------------------------------------------
(* The container recognizer applied to an opening line with a params block, *)
(* a body line and a closing line.                                          *)

Kinds == {<<"n">>, <<"w", "-", "1">>}

ParamKeys == {<<"a">>, <<"b", "_", "1">>}

\* Values written bare, and values written between double quotes: with a
\* space, with a backslash, with the characters of the block itself.
BareValues == {<<"b">>, <<"c", "-", "1">>}
QuotedValues == {<<"c", " ", "d">>, <<"\\", "n">>, <<"{", "=", "}">>}

\* The pairs that can be written: key, value, and how the value is written.
ParamDecls ==
    [key : ParamKeys, value : BareValues, quoted : {FALSE}]
    \cup [key : ParamKeys, value : QuotedValues, quoted : {TRUE}]

\* A pair as it is written.
ParamText(d) ==
    d.key \o <<"=">>
    \o (IF d.quoted THEN <<QUOTE>> \o d.value \o <<QUOTE>> ELSE d.value)

\* The body and the closing line that follow the opening line.
AfterOpening == <<NL>> \o LText \o <<NL>> \o Fence \o <<NL>>

\* ":::kind{" is typed.
OpenParams(k) ==
    /\ oph = "idle"
    /\ opening' = Fence \o k \o <<"{">>
    /\ oph' = "params"
    /\ UNCHANGED <<odecl, opened>>
    /\ UNCHANGED <<blockVars, inlineVars, treeVars, imageVars, escapeVars>>

\* One more pair, a space between it and the one before.
Param(d) ==
    /\ oph = "params"
    /\ Len(odecl) < MaxParams
    /\ opening' = opening \o (IF odecl # <<>> THEN <<" ">> ELSE <<>>)
                  \o ParamText(d)
    /\ odecl' = Append(odecl, d)
    /\ UNCHANGED <<oph, opened>>
    /\ UNCHANGED <<blockVars, inlineVars, treeVars, imageVars, escapeVars>>

\* The closing brace.
CloseParams ==
    /\ oph = "params"
    /\ opening' = opening \o <<"}">>
    /\ oph' = "typed"
    /\ UNCHANGED <<odecl, opened>>
    /\ UNCHANGED <<blockVars, inlineVars, treeVars, imageVars, escapeVars>>

\* container(state)(input) under the default state.
ParseOpening ==
    /\ oph = "typed"
    /\ opened' = container_open(<<>>, opening \o AfterOpening)
    /\ oph' = "parsed"
    /\ UNCHANGED <<opening, odecl>>
    /\ UNCHANGED <<blockVars, inlineVars, treeVars, imageVars, escapeVars>>

NextParams ==
    \/ \E k \in Kinds : OpenParams(k)
    \/ \E d \in ParamDecls : Param(d)
    \/ CloseParams
    \/ ParseOpening

SpecParams == Init /\ [][NextParams]_vars

----------------------------------------------------------------------------
(* typst_printer/util.rs: escape_latex applied to two texts and to the     *)
(* two put together.  The texts are typed character by character.          *)

\* The ten characters escape_latex has an arm for.
Specials == {"\\", "{", "}", "$", "&", "%", "#", "^", "_", "~"}

EscapeChars == Specials \cup {"a"}

\* One more character of the first text.
TypeA(c) ==
    /\ eph = "a"
    /\ Len(ea) < MaxText
    /\ ea' = Append(ea, c)
    /\ UNCHANGED <<eb, eph, eres>>
    /\ UNCHANGED <<blockVars, inlineVars, treeVars, imageVars, paramVars>>

\* One more character of the second text; the first is complete.
TypeB(c) ==
    /\ eph \in {"a", "b"}
    /\ Len(ea) + Len(eb) < MaxText
    /\ eb' = Append(eb, c)
    /\ eph' = "b"
    /\ UNCHANGED <<ea, eres>>
    /\ UNCHANGED <<blockVars, inlineVars, treeVars, imageVars, paramVars>>

\* escape_latex(a), escape_latex(b) and escape_latex(a + b)
Escape ==
    /\ eph \in {"a", "b"}
    /\ eph' = "escaped"
    /\ eres' = [a |-> escape_latex(ea), b |-> escape_latex(eb),
                ab |-> escape_latex(ea \o eb)]
    /\ UNCHANGED <<ea, eb>>
    /\ UNCHANGED <<blockVars, inlineVars, treeVars, imageVars, paramVars>>

NextEscape ==
    \/ \E c \in EscapeChars : TypeA(c)
    \/ \E c \in EscapeChars : TypeB(c)
    \/ Escape

SpecEscape == Init /\ [][NextEscape]_vars

----------------------------------------------------------------------------
(* What the claims speak of, read off the lines typed. *)

\* The text starts with the line l.
LineAt(text, l) == text = l \/ StartsWith(text, l \o <<NL>>)

\* Lines with no ":::" in them.
BodyLines == {LText, LList, LBlank}

\* The lines are an opening line ":::kind", body lines and a closing line
\* ":::" followed by a line ending, at line k.
PlainContainerTo(k) ==
    /\ lines[1] \in {LOpenN, LOpenW}
    /\ lines[k] = LClose
    /\ (k < Len(lines) \/ eol)
    /\ \A i \in 2..(k - 1) : lines[i] \in BodyLines

IsPlainContainer == \E k \in 2..Len(lines) : PlainContainerTo(k)
CloseLine == CHOOSE k \in 2..Len(lines) : PlainContainerTo(k)
PlainBody == JoinLines(SubSeq(lines, 2, CloseLine - 1), TRUE)
PlainAfter == JoinLines(SubSeq(lines, CloseLine + 1, Len(lines)), eol)

\* The blocks of a text in which no container is recognized.
RECURSIVE BlocksOf(_)
BlocksOf(text) ==
    IF text = <<>> THEN <<>>
    ELSE other_block(text).val \o BlocksOf(other_block(text).rest)

PlainContainer == Container(Drop(lines[1], 3), <<>>, BlocksOf(PlainBody))

HasContainer(blocks) == \E i \in 1..Len(blocks) : blocks[i].b = "Container"

\* The first call of the container recognizer by the parse has returned.
FirstCallDone ==
    tried.st = seed /\ tried.at = InputText /\ tried.out \notin {"None", "Open"}

----------------------------------------------------------------------------
(* C1: parse started from the default state returns a Document for every   *)
(* input: no recognizer failure aborts the parse; a malformed container    *)
(* opening line is a recoverable failure of the container recognizer.      *)
C1_ParseTotal ==
    seed = <<>> => (tried.out # "Failure" /\ pc \notin {"failure", "error"})

(* C2: ":::kind", a body and a closing ":::" with its line ending are one  *)
(* Container with that kind, no params and the blocks of the body; the     *)
(* recognizer consumes up to and including the line ending after the       *)
(* closing ":::".                                                          *)
C2_PlainContainer ==
    (seed = <<>> /\ IsPlainContainer) =>
        /\ FirstCallDone =>
              /\ tried.out = "Ok"
              /\ tried.got = <<PlainContainer>>
              /\ tried.rest = PlainAfter
        /\ pc = "done" => (doc # <<>> /\ doc[1] = PlainContainer)
        /\ CloseLine = Len(lines) =>
              /\ pc \notin {"error", "failure"}
              /\ pc = "done" => doc = <<PlainContainer>>
        /\ lines = <<LOpenN, LText, LClose>> =>
              PlainContainer =
                  Container(<<"n">>, <<>>, <<Paragraph(<<Text(<<"H">>)>>)>>)

C2_Witness ==
    /\ seed = <<>>
    /\ lines = <<LOpenN, LText, LClose>>
    /\ eol
    /\ pc = "done"
    /\ doc = <<Container(<<"n">>, <<>>, <<Paragraph(<<Text(<<"H">>)>>)>>)>>

(* C3: with a non-empty container stack the container recognizer declines  *)
(* for every input and every kind, with a recoverable Error that carries   *)
(* the input untouched, and the caller gets its blocks from the other      *)
(* recognizers.                                                            *)
C3_Guard ==
    (tried.out # "None" /\ tried.st # <<>>) =>
        /\ tried.out = "Error"
        /\ tried.rest = tried.at
        /\ ~HasContainer(tried.got)

C3_Witness ==
    /\ tried.st = <<(<<"w">>)>>
    /\ LineAt(tried.at, LOpenN)
    /\ tried.out = "Error"
    /\ tried.got # <<>>

(* C4: the container recognizer never changes the state it was given: the  *)
(* body is parsed under the caller's stack with the kind appended, the     *)
(* caller's stack stays what it was, and a second top-level container      *)
(* after a first one, or after a failed attempt, is recognized too.        *)
C4_ParentState ==
    /\ pc = "parse" =>
          /\ frames[1].st = seed
          /\ \A i \in 2..Len(frames) :
                frames[i].st = Append(frames[i - 1].st, frames[i].pend.kind)
    /\ (tried.out \in {"Ok", "Error"} /\ pc = "parse") =>
          frames[Len(frames)].st = tried.st
    /\ (seed = <<>> /\ pc = "done" /\ eol /\ Len(lines) = 4
        /\ lines[1] \in {LOpenN, LOpenW, LSpace, LParams, LTrail}
        /\ lines[2] \in {LClose, LBlank}
        /\ (lines[1] = LTrail <=> lines[2] = LBlank)
        /\ lines[3] \in {LOpenN, LOpenW}
        /\ lines[4] = LClose) =>
          /\ doc[Len(doc)] = Container(Drop(lines[3], 3), <<>>, <<>>)
          /\ lines[1] # LTrail => (Len(doc) = 2 /\ doc[1].b = "Container")

C4_Witness ==
    /\ seed = <<>>
    /\ lines = <<LOpenN, LClose, LOpenW, LClose>>
    /\ eol
    /\ pc = "done"
    /\ doc = <<Container(<<"n">>, <<>>, <<>>), Container(<<"w">>, <<>>, <<>>)>>

(* C5: non-whitespace content after the kind and the optional params block *)
(* of an opening line makes the container recognizer fail with a           *)
(* recoverable Error and no Container; trailing whitespace is accepted.    *)
C5_Trailing ==
    /\ (tried.out \notin {"None", "Open"}
        /\ (LineAt(tried.at, LTrail) \/ LineAt(tried.at, LParamsTrail))) =>
          (tried.out = "Error" /\ ~HasContainer(tried.got))
    /\ (seed = <<>> /\ lines = <<LSpace, LClose>> /\ eol /\ pc = "done") =>
          doc = <<Container(<<"n">>, <<>>, <<>>)>>

C5_Witness ==
    /\ tried.st = <<>>
    /\ tried.at = LParamsTrail \o <<NL>> \o LClose \o <<NL>>
    /\ tried.out = "Error"
    /\ tried.got # <<>>

(* C6: the body of a container ends at the first line that is ":::" after  *)
(* at most three spaces; a ":::" inside a line, at the start of a longer   *)
(* line or after four spaces does not end it, and the container is         *)
(* recognized with the later closing line.                                 *)
C6_ClosingLine ==
    (/\ seed = <<>>
     /\ pc = "done"
     /\ eol
     /\ Len(lines) = 3
     /\ lines[1] = LOpenN
     /\ lines[2] \in {LMid, LOpenW, LClose4}
     /\ lines[3] \in {LClose, LClose3}) =>
        (Len(doc) = 1 /\ doc[1].b = "Container" /\ doc[1].kind = <<"n">>)

----------------------------------------------------------------------------
(* What the inline claims speak of. *)

ParsedSpan == ph = "parsed"

\* Alphanumeric words joined by underscores.
IsJoinedWords(s) ==
    /\ s # <<>>
    /\ \A i \in 1..Len(s) : s[i] \in Alphanumeric \cup {"_"}
    /\ \E i \in 1..Len(s) : s[i] = "_"
    /\ s[1] \in Alphanumeric
    /\ s[Len(s)] \in Alphanumeric

\* Text before or after a delimited word that ends or starts with
\* whitespace or punctuation, or is empty.
OuterBefore == {<<>>, <<"a", " ">>, <<".">>}
OuterAfter == {<<>>, <<" ", "b">>, <<".">>}

TextOf(s) == IF s = <<>> THEN <<>> ELSE <<Text(s)>>

(* C7: an underscore run opens only if left-flanking and not preceded by   *)
(* an alphanumeric and closes only if right-flanking and not followed by   *)
(* one: alphanumeric words joined by underscores are one literal Text,     *)
(* while _w_ and __w__ bounded by whitespace, punctuation or the end of    *)
(* the span give Emphasis and Strong, also both in one paragraph.          *)
C7_Underscore ==
    ParsedSpan =>
        /\ IsJoinedWords(span) => inl = <<Text(span)>>
        /\ \A w \in Words, b \in OuterBefore, a \in OuterAfter :
              /\ span = b \o <<"_">> \o w \o <<"_">> \o a =>
                    inl = TextOf(b) \o <<Emphasis(<<Text(w)>>)>> \o TextOf(a)
              /\ span = b \o <<"_", "_">> \o w \o <<"_", "_">> \o a =>
                    inl = TextOf(b) \o <<Strong(<<Text(w)>>)>> \o TextOf(a)
              /\ span = <<"_">> \o w \o <<"_", " ", "_", "_", "b", "_", "_">> =>
                    inl = <<Emphasis(<<Text(w)>>), Text(<<" ">>),
                            Strong(<<Text(<<"b">>)>>)>>

C7_Witness ==
    /\ ParsedSpan
    /\ span = <<"a", "_", "b", "c", "_", "b">>
    /\ inl = <<Text(span)>>

(* C8: a closing ** run followed at once by an alphanumeric still closes:  *)
(* **X**Y gives Strong([Text(X)]) and then Text(Y).                        *)
C8_StrongThenText ==
    ParsedSpan =>
        \A x \in Words, y \in {<<"b">>, <<"c", "a">>} :
            span = <<"*", "*">> \o x \o <<"*", "*">> \o y =>
                inl = <<Strong(<<Text(x)>>), Text(y)>>

C8_Witness ==
    /\ ParsedSpan
    /\ span = <<"*", "*", "b", "c", "*", "*", "b">>
    /\ inl = <<Strong(<<Text(<<"b", "c">>)>>), Text(<<"b">>)>>

(* C9: a word between two runs of three identical delimiters is Strong     *)
(* around Emphasis around the text, at the top level of a paragraph and    *)
(* inside a Strong made with the other delimiter.                          *)
C9_Nested ==
    ParsedSpan =>
        \A w \in Words, d \in Delims, e \in Delims :
            /\ \A b \in {<<>>, <<"a", " ">>} :
                  span = b \o Rep(d, 3) \o w \o Rep(d, 3) =>
                      inl = TextOf(b) \o <<Strong(<<Emphasis(<<Text(w)>>)>>)>>
            /\ (e # d /\ span = Rep(e, 2) \o <<"a", " ">> \o Rep(d, 3) \o w
                                 \o Rep(d, 3) \o <<" ", "b">> \o Rep(e, 2)) =>
                  inl = <<Strong(<<Text(<<"a", " ">>),
                                   Strong(<<Emphasis(<<Text(w)>>)>>),
                                   Text(<<" ", "b">>)>>)>>

C9_Witness ==
    /\ ParsedSpan
    /\ span = <<"*", "*", "a", " ", "_", "_", "_", "a", "_", "_", "_", " ",
                "b", "*", "*">>
    /\ inl = <<Strong(<<Text(<<"a", " ">>),
                        Strong(<<Emphasis(<<Text(<<"a">>)>>)>>),
                        Text(<<" ", "b">>)>>)>>

(* C10: the list item recognizer is tried before the paragraph: "* a *" at *)
(* the start of the document is one bullet List (star marker) with one     *)
(* item whose content is Paragraph([Text("a *")]), and no Emphasis.        *)
C10_ListFirst ==
    (seed = <<>> /\ pc = "done" /\ lines # <<>> /\ lines[1] = LList) =>
        /\ doc # <<>>
        /\ doc[1].b = "List"
        /\ doc[1].marker = "Star"
        /\ doc[1].items[1] =
              ListItem(<<Paragraph(<<Text(<<"a", " ", "*">>)>>)>>)
        /\ Len(lines) = 1 => Len(doc[1].items) = 1 /\ Len(doc) = 1

C10_Witness ==
    /\ seed = <<>>
    /\ pc = "done"
    /\ lines = <<LList>>
    /\ doc = <<List("Star",
                    <<ListItem(<<Paragraph(<<Text(<<"a", " ", "*">>)>>)>>)>>)>>

----------------------------------------------------------------------------
(* What the claims speak of, read off the tree by the fields of its nodes. *)

RECURSIVE Flatten(_, _)
Flatten(seqs, k) ==
    IF k > Len(seqs) THEN <<>> ELSE seqs[k] \o Flatten(seqs, k + 1)

Field(node, f) == IF f \in DOMAIN node THEN node[f] ELSE <<>>

\* The inlines held by an inline node.
ChildInlines(node) ==
    Field(node, "c") \o Field(node, "children")
    \o (IF node.i = "LinkReference" THEN node.label \o node.text ELSE <<>>)

\* The inlines held by a block itself.
BlockInlines(block) ==
    Field(block, "inlines") \o Field(block, "content")
    \o (IF block.b = "Definition" THEN block.label ELSE <<>>)
    \o (IF block.b = "Table"
        THEN Flatten([k \in 1..Len(Flatten(block.rows, 1)) |->
                         Flatten(block.rows, 1)[k].content], 1)
        ELSE <<>>)

\* The blocks held by a block.
ChildBlocks(block) ==
    Field(block, "blocks")
    \o (IF block.b = "List"
        THEN Flatten([k \in 1..Len(block.items) |-> block.items[k].blocks], 1)
        ELSE <<>>)

\* Every block of the tree, in document order.
RECURSIVE AllBlocks(_, _)
AllBlocks(blocks, k) ==
    IF k > Len(blocks) THEN <<>>
    ELSE <<blocks[k]>> \o AllBlocks(ChildBlocks(blocks[k]), 1)
         \o AllBlocks(blocks, k + 1)

\* Every inline node under the inlines given, in document order.
RECURSIVE InlineNodes(_, _)
InlineNodes(inlines, k) ==
    IF k > Len(inlines) THEN <<>>
    ELSE <<inlines[k]>> \o InlineNodes(ChildInlines(inlines[k]), 1)
         \o InlineNodes(inlines, k + 1)

\* Every inline node of the tree.
AllInlines(blocks) ==
    InlineNodes(Flatten([k \in 1..Len(AllBlocks(blocks, 1)) |->
                            BlockInlines(AllBlocks(blocks, 1)[k])], 1), 1)

Range(s) == {s[k] : k \in 1..Len(s)}

Contains(s, p) ==
    \E k \in 0..(Len(s) - Len(p)) : SubSeq(s, k + 1, k + Len(p)) = p

LinkRefs == {x \in Range(AllInlines(ast)) : x.i = "LinkReference"}
FootnoteRefs == {x \in Range(AllInlines(ast)) : x.i = "FootnoteReference"}
Definitions == {x \in Range(AllBlocks(ast, 1)) : x.b = "Definition"}
FootnoteDefinitions ==
    {x \in Range(AllBlocks(ast, 1)) : x.b = "FootnoteDefinition"}

Rendered == op = "render"
Indexed == State_new(ast)

\* The fallback form of the link reference r.
LinkFallback(r) ==
    <<"[">> \o inlines_to_doc(r.text, 1, Indexed) \o <<"]", "[">>
    \o inlines_to_doc(r.label, 1, Indexed) \o <<"]">>

\* The link of the reference r to the destination u.
LinkTo(r, u) ==
    <<"\\", "h", "r", "e", "f", "{">> \o escape_latex(u) \o <<"}", "{">>
    \o inlines_to_doc(r.text, 1, Indexed) \o <<"}">>

(* C11: a LinkReference of a rendered document is written as a link, to    *)
(* the destination of the definition and with the text of the reference,   *)
(* exactly if the index built from the document holds a Definition whose   *)
(* label is equal to the label of the reference, node for node and         *)
(* character for character; otherwise it is written in its fallback form,  *)
(* which differs from every link.                                          *)
C11_LinkResolution ==
    Rendered =>
        \A r \in LinkRefs :
            IF \E l \in DOMAIN Indexed.link_definitions : l = r.label
            THEN /\ Contains(res, LinkTo(r, Indexed.link_definitions[r.label].destination))
                 /\ ~Contains(res, LinkFallback(r))
            ELSE /\ Contains(res, LinkFallback(r))
                 /\ \A d \in Definitions :
                       ~Contains(res, LinkTo(r, d.destination))

C11_Witness ==
    /\ Rendered
    /\ ast = <<DefEx, PRefs, PRefsUpper>>
    /\ Contains(res, <<"\\", "h", "r", "e", "f", "{", "u", "}", "{", "t", "}">>)
    /\ Contains(res, <<"[", "\\", "t", "e", "x", "t", "i", "t", "{", "t", "}",
                       "]", "[", "E", "x", "]">>)

\* The blocks at the places the index build goes to: the blocks of the
\* document and of the lists, block quotes and alerts among them.
RECURSIVE IndexedBlocks(_, _)
IndexedBlocks(blocks, k) ==
    IF k > Len(blocks) THEN <<>>
    ELSE <<blocks[k]>>
         \o (IF blocks[k].b \in {"List", "BlockQuote", "GitHubAlert"}
             THEN IndexedBlocks(ChildBlocks(blocks[k]), 1)
             ELSE <<>>)
         \o IndexedBlocks(blocks, k + 1)

\* The fallback form of a footnote reference to label.
FootnoteFallback(label) == <<"[", "^">> \o escape_latex(label) \o <<"]">>

\* The start of the footnote text under the index n.
FootnoteText(n) ==
    <<"\\", "f", "o", "o", "t", "n", "o", "t", "e", "t", "e", "x", "t", "{",
      "[">> \o format_index(n) \o <<"]", " ">>

(* C12: a reference whose label is not in the index is no error: the       *)
(* document is rendered, a link reference as [text][label] and a footnote  *)
(* reference as [^label], text and label written as the printer writes     *)
(* text; and a FootnoteDefinition that the index build went to is written  *)
(* as the footnote text under its index.                                   *)
C12_MissFallback ==
    Rendered =>
        /\ \A r \in LinkRefs :
              r.label \notin DOMAIN Indexed.link_definitions =>
                  Contains(res, LinkFallback(r))
        /\ \A r \in FootnoteRefs :
              r.label \notin DOMAIN Indexed.footnote_index =>
                  Contains(res, FootnoteFallback(r.label))
        /\ \A d \in Range(IndexedBlocks(ast, 1)) :
              d.b = "FootnoteDefinition" =>
                  /\ d.label \in DOMAIN Indexed.footnote_index
                  /\ Contains(res, FootnoteText(Indexed.footnote_index[d.label]))

C12_Witness ==
    /\ Rendered
    /\ ast = <<PRefsUpper, wrap("List", <<FootN>>)>>
    /\ Contains(res, <<"[", "\\", "t", "e", "x", "t", "i", "t", "{", "t", "}",
                       "]", "[", "E", "x", "]">>)
    /\ Contains(res, <<"[", "^", "m", "\\", "_", "]">>)
    /\ Contains(res, FootnoteText(1) \o <<"c", "}">>)

(* C13: the index build goes to all blocks of the document: every          *)
(* Definition and every FootnoteDefinition, at any depth and under any     *)
(* parent block (the bodies of footnote definitions and of containers      *)
(* too), has its label in the link-definition map or the footnote map.     *)
C13_IndexAll ==
    op = "index" =>
        /\ \A d \in Definitions : d.label \in DOMAIN res.link_definitions
        /\ \A d \in FootnoteDefinitions :
              d.label \in DOMAIN res.footnote_index

\* The blocks given with the paragraphs among them moved behind the others.
ParagraphsLast(blocks) ==
    SelectSeq(blocks, LAMBDA x : x.b # "Paragraph")
    \o SelectSeq(blocks, LAMBDA x : x.b = "Paragraph")

RECURSIVE JoinPieces(_, _)
JoinPieces(pieces, k) ==
    IF k > Len(pieces) THEN <<>>
    ELSE (IF k > 1 THEN <<Hardline, Hardline>> ELSE <<>>)
         \o pieces[k] \o JoinPieces(pieces, k + 1)

(* C14: the references of a paragraph are written as they are written when *)
(* every definition comes before the paragraph: the output is that of the  *)
(* blocks each rendered under the indices of the document with its         *)
(* paragraphs moved behind all other blocks.                               *)
C14_OrderIndependent ==
    Rendered =>
        res = JoinPieces([k \in 1..Len(ast) |->
                            block_to_doc(ast[k],
                                         State_new(ParagraphsLast(ast)))], 1)

C14_Witness ==
    /\ Rendered
    /\ ast = <<PRefs, DefEx, FootN>>
    /\ Contains(res, <<"\\", "h", "r", "e", "f", "{", "u", "}", "{", "t", "}">>)
    /\ Contains(res, <<"\\", "f", "o", "o", "t", "n", "o", "t", "e", "m", "a",
                       "r", "k", "{", "[", "1", "]", "}">>)

Tables == {x \in Range(AllBlocks(ast, 1)) : x.b = "Table"}

(* C15: a colspan keeps the table rectangular: in the header row a cell     *)
(* declared with colspan 2 is followed by a cell that is present and marked *)
(* removed_by_extended_table, and every row of the table has as many cells, *)
(* the covered ones counted, as there are alignments.                       *)
C15_Rectangular ==
    \A t \in Tables :
        /\ \A r \in 1..Len(t.rows) : Len(t.rows[r]) = Len(t.alignments)
        /\ \A k \in 1..Len(t.rows[1]) :
              t.rows[1][k].colspan = Some(2) =>
                  /\ k < Len(t.rows[1])
                  /\ t.rows[1][k + 1].removed_by_extended_table

C15_Witness ==
    /\ ast # <<>>
    /\ ast[1].b = "Table"
    /\ ast[1].alignments = <<"Left", "None">>
    /\ ast[1].rows[1] = <<TableCell(<<Text(<<"a">>)>>, Some(2), FALSE),
                          TableCell(<<>>, None, TRUE)>>
    /\ Len(ast[1].rows) = 2

\* How many times the character c is written in s, from the k-th place on.
RECURSIVE Count(_, _, _)
Count(s, c, k) ==
    IF k > Len(s) THEN 0
    ELSE (IF s[k] = c THEN 1 ELSE 0) + Count(s, c, k + 1)

\* The cells of a row that no cell before them covers.
Uncovered(row) == SelectSeq(row, LAMBDA cell : ~cell.removed_by_extended_table)

\* The column separators of the rows of the tables among the blocks from
\* the k-th on, were each row written with its uncovered cells alone.
RECURSIVE SeparatorsDue(_, _)
SeparatorsDue(blocks, k) ==
    IF k > Len(blocks) THEN 0
    ELSE (IF blocks[k].b = "Table"
          THEN Count(Flatten([r \in 1..Len(blocks[k].rows) |->
                                 Tail([j \in 1..Len(Uncovered(blocks[k].rows[r]))
                                          |-> "&"])], 1), "&", 1)
          ELSE 0)
         + SeparatorsDue(blocks, k + 1)

\* The tables of the document, in document order, and of the value returned
\* by a transformer.
TablesOf(blocks) == SelectSeq(AllBlocks(blocks, 1), LAMBDA x : x.b = "Table")

(* C16: consumers skip covered cells without deleting them: the rendered    *)
(* document has a column separator only between cells that are not marked   *)
(* removed_by_extended_table, so a covered cell adds neither content nor a  *)
(* separator of its own; and the value of the default transformer walk has  *)
(* every cell of every table at its place with colspan, rowspan and the     *)
(* removed flag as they were.                                               *)
C16_SkipCovered ==
    /\ Rendered => Count(res, "&", 1) = SeparatorsDue(AllBlocks(ast, 1), 1)
    /\ op = "Identity" =>
          \A k \in 1..Len(TablesOf(ast)) :
              /\ k <= Len(TablesOf(res))
              /\ TablesOf(res)[k] = TablesOf(ast)[k]

(* C17: the value of transform_with for a transformer that overrides no     *)
(* method is structurally equal to the document: every block, inline,       *)
(* table cell, list item and container is there unchanged, in its order.    *)
C17_Identity == op = "Identity" => res = ast

C17_Witness ==
    /\ op = "Identity"
    /\ Len(ast) = 2
    /\ ast[1] = wrap("Container", <<PRefsUpper>>)
    /\ ast[2].b = "Table"
    /\ \E r \in 1..Len(ast[2].rows) :
           Len(Uncovered(ast[2].rows[r])) < Len(ast[2].rows[r])
    /\ res = ast

(* C18: a visitor that overrides visit_inline alone and goes on with        *)
(* walk_inline is given every Inline node of the document exactly once, in  *)
(* document order, wherever the node is nested, a container body included.  *)
C18_VisitAll == op = "visit" => res = AllInlines(ast)

----------------------------------------------------------------------------
(* What the claims speak of, read off the text typed after an image. *)

WidthKey == <<"w", "i", "d", "t", "h">>
HeightKey == <<"h", "e", "i", "g", "h", "t">>

\* The value v written bare or between double quotes.
Written(v, quoted) == IF quoted THEN Quoted(v) ELSE v

\* The block {width=W height=H} with each value written in its way.
WidthHeightBlock(w, h) ==
    <<"{">> \o WidthKey \o <<"=">> \o w \o <<" ">>
    \o HeightKey \o <<"=">> \o h \o <<"}">>

ImageParsed == iph = "parsed"

(* C19: an image with the block {width=W height=H} right after it, each    *)
(* value bare or between double quotes whatever the other is, is one Image *)
(* with attr = Some(width = Some(W), height = Some(H)), the quotes gone and *)
(* the text of the value as it was written; the block is consumed whole    *)
(* and what is left is the text after its closing brace.                   *)
C19_WidthHeight ==
    ImageParsed =>
        \A qw \in BOOLEAN, qh \in BOOLEAN, w \in {W100pt, H50pt},
           h \in {W100pt, H50pt}, a \in Trailing :
            tail = WidthHeightBlock(Written(w, qw), Written(h, qh)) \o a =>
                img = Ok(a, Image(<<"/", "u", "r", "l">>, <<"f", "o", "o">>,
                                  Some([width |-> Some(w), height |-> Some(h)])))

C19_Witness ==
    /\ ImageParsed
    /\ tail = WidthHeightBlock(Quoted(W100pt), H50pt)
    /\ img.t = "Ok"
    /\ img.rest = <<>>
    /\ img.val.attr = Some([width |-> Some(W100pt), height |-> Some(H50pt)])

\* Values written bare with a character that is no letter, no digit, no "-"
\* and no "_".
OtherBareValues ==
    {<<"5", "0", "%">>, <<"1", ".", "5", "e", "m">>, <<"a", "/", "b">>,
     <<QUOTE, "5", "0">>}

EndsWith(s, p) == Len(p) <= Len(s) /\ SubSeq(s, Len(s) - Len(p) + 1, Len(s)) = p

\* The text typed has the attribute k=v with v ending where a bare value
\* ends.
HasAttribute(k, v) ==
    \/ Contains(tail, k \o <<"=">> \o v \o <<" ">>)
    \/ Contains(tail, k \o <<"=">> \o v \o <<"}">>)
    \/ EndsWith(tail, k \o <<"=">> \o v)

(* C20: a bare attribute value is made of letters, digits, "-" and "_"     *)
(* alone: a block after an image with a bare value that holds another      *)
(* character (50%, 1.5em, a/b, a double quote never closed) is not taken   *)
(* as an attribute block; the image has attr = None and the text of the    *)
(* block is left after the image.                                          *)
C20_BareToken ==
    /\ ImageParsed
    /\ StartsWith(tail, <<"{">>)
    /\ \E k \in AttributeKeys, v \in OtherBareValues : HasAttribute(k, v)
    => /\ img.t = "Ok"
       /\ img.val.attr = None
       /\ img.rest = tail

----------------------------------------------------------------------------
(* What the claims speak of, read off the opening line typed. *)

OpeningParsed == oph = "parsed"

\* The kind typed between ":::" and "{".
KindTyped == SubSeq(opening, 4, NotSpanLen(opening, {"{"}))

\* The pairs (key, value) in the order they were written.
ParamsTyped == [k \in 1..Len(odecl) |-> <<odecl[k].key, odecl[k].value>>]

(* C21: for the opening line ":::kind{k1=v1 k2=v2 ...}" the params of the   *)
(* Container are the pairs (key, value) in the order written, a key written *)
(* twice kept twice; a value is the text between its double quotes as it    *)
(* stands, the quotes gone, or the bare token; kind is the text between     *)
(* ":::" and "{".                                                           *)
C21_Params ==
    OpeningParsed =>
        /\ opened.t = "Ok"
        /\ opened.val.kind = KindTyped
        /\ opened.val.params = ParamsTyped
        /\ opened.val.inner = LText \o <<NL>>

C21_Witness ==
    /\ OpeningParsed
    /\ opening = Fence \o <<"n", "{", "a", "=", "b", " ", "a", "=", QUOTE,
                            "\\", "n", QUOTE, "}">>
    /\ opened.t = "Ok"
    /\ opened.val.kind = <<"n">>
    /\ opened.val.params = << <<(<<"a">>), <<"b">> >>,
                              <<(<<"a">>), <<"\\", "n">> >> >>

\* No two neighbours of the inline sequence are both Text, at any depth.
RECURSIVE MaximalRuns(_)
MaximalRuns(inlines) ==
    /\ \A k \in 1..(Len(inlines) - 1) :
           ~(inlines[k].i = "Text" /\ inlines[k + 1].i = "Text")
    /\ \A k \in 1..Len(inlines) :
           inlines[k].i = "Text" \/ MaximalRuns(inlines[k].c)

(* C22: plain text is merged into maximal runs: in the inline sequence the  *)
(* parser returns, and in the content of every node of it, no two adjacent  *)
(* nodes are both Text; if no construct was formed, the whole span,         *)
(* underscores and unpaired delimiter runs included, is one Text node.      *)
C22_MaximalText ==
    ParsedSpan =>
        /\ MaximalRuns(inl)
        /\ (\A k \in 1..Len(inl) : inl[k].i = "Text") => inl = <<Text(span)>>

C22_Witness ==
    /\ ParsedSpan
    /\ span = <<"a", " ", "*", "*", "b", "c", "_", "b">>
    /\ inl = <<Text(span)>>

\* The tree with f applied to the text of every Text node and nothing else
\* changed: every field that holds nodes is gone through.
RECURSIVE MapTexts(_)
MapText(n) ==
    IF "i" \in DOMAIN n /\ n.i = "Text" THEN Text(func(n.s))
    ELSE [f \in DOMAIN n |->
            CASE f \in {"c", "children", "text", "inlines", "content",
                        "blocks", "items"} -> MapTexts(n[f])
              [] f = "label" /\ "b" \in DOMAIN n /\ n.b = "Definition" ->
                   MapTexts(n[f])
              [] f = "label" /\ "i" \in DOMAIN n /\ n.i = "LinkReference" ->
                   MapTexts(n[f])
              [] f = "rows" -> [r \in 1..Len(n[f]) |-> MapTexts(n[f][r])]
              [] OTHER -> n[f]]

MapTexts(nodes) == [k \in 1..Len(nodes) |-> MapText(nodes[k])]

(* C23: doc.transform_text(f) returns the document with every Text(s), at   *)
(* any depth (emphasis, links, list items, table cells, block quotes,       *)
(* footnotes, alerts, containers), replaced by Text(f(s)), f applied once   *)
(* to each, and nothing else changed: same shape, same other nodes, same    *)
(* order.                                                                   *)
C23_TransformText == op = "TextTransformer" => res = MapTexts(ast)

C23_Witness ==
    /\ op = "TextTransformer"
    /\ Len(ast) = 2
    /\ ast[1] = wrap("Container", <<PRefsUpper>>)
    /\ ast[2].b = "Table"
    /\ res[1] = wrap("Container",
                     <<Paragraph(<<LinkReference(
                                      <<Text(<<"E", "x", "E", "x">>)>>,
                                      <<Emphasis(<<Text(<<"t", "t">>)>>)>>),
                                   FootnoteReference(<<"m", "_">>)>>)>>)
    /\ res[2].rows[1][1].content = <<Text(<<"a", "a">>)>>

----------------------------------------------------------------------------
(* ast_transform/convenience.rs: FilterTransform for Document.             *)

\* The predicate handed to retain, negated: Block::Paragraph(inlines) with
\* inlines.is_empty().
is_empty_paragraph(block) == block.b = "Paragraph" /\ block.inlines = <<>>

\* self.blocks.retain(..): the blocks of the document itself are gone
\* through, no block is gone into.
remove_empty_paragraphs(blocks) ==
    SelectSeq(blocks, LAMBDA block : ~is_empty_paragraph(block))

----------------------------------------------------------------------------
(* ast_transform/transformer.rs: the expansion walk.  A Vec of nodes is a  *)
(* sequence, flat_map the concatenation of the sequences returned.         *)

\* expand_inline and walk_expand_inline: vec![self.transform_inline(inline)]
expand_inline(t, inline) == <<transform_inline(t, inline)>>

walk_expand_inline(t, inline) == <<transform_inline(t, inline)>>

\* inlines.into_iter().flat_map(|inline| self.walk_expand_inline(inline))
walk_expand_inlines(t, inlines) ==
    Flatten([k \in 1..Len(inlines) |-> walk_expand_inline(t, inlines[k])], 1)

\* expand_block: vec![self.transform_block(block)]
expand_block(t, block) == <<transform_block(t, block)>>

\* expand_table_cell: vec![self.transform_table_cell(cell)]
expand_table_cell(t, cell) == walk_transform_table_cell(t, cell)

walk_expand_table_row(t, row) ==
    << Flatten([k \in 1..Len(row) |-> expand_table_cell(t, row[k])], 1) >>

walk_expand_list_item(t, item) ==
    << [item EXCEPT !.blocks =
           Flatten([k \in 1..Len(@) |-> expand_block(t, @[k])], 1)] >>

RECURSIVE walk_expand_block(_, _)

\* blocks.into_iter().flat_map(|block| self.walk_expand_block(block))
walk_expand_blocks(t, blocks) ==
    Flatten([k \in 1..Len(blocks) |-> walk_expand_block(t, blocks[k])], 1)

\* The arms of a paragraph, a heading, a block quote, a list, a table, a
\* footnote definition, an alert and a definition go through the children
\* themselves; every other block is handed to transform_block.
walk_expand_block(t, block) ==
    CASE block.b = "Paragraph" ->
           << Paragraph(walk_expand_inlines(t, block.inlines)) >>
      [] block.b = "Heading" ->
           << [block EXCEPT !.content = walk_expand_inlines(t, @)] >>
      [] block.b = "BlockQuote" ->
           << BlockQuote(walk_expand_blocks(t, block.blocks)) >>
      [] block.b = "List" ->
           << [block EXCEPT !.items =
                  Flatten([k \in 1..Len(@) |->
                              walk_expand_list_item(t, @[k])], 1)] >>
      [] block.b = "Table" ->
           << [block EXCEPT !.rows =
                  Flatten([k \in 1..Len(@) |->
                              walk_expand_table_row(t, @[k])], 1)] >>
      [] block.b \in {"FootnoteDefinition", "GitHubAlert"} ->
           << [block EXCEPT !.blocks = walk_expand_blocks(t, @)] >>
      [] block.b = "Definition" ->
           << [block EXCEPT !.label = walk_expand_inlines(t, @)] >>
      [] OTHER -> << transform_block(t, block) >>

\* walk_expand_document: vec![doc], a document being its blocks.
walk_expand_document(t, blocks) == << walk_expand_blocks(t, blocks) >>

\* Document::expand_with
expand_with(blocks, t) == walk_expand_document(t, blocks)

----------------------------------------------------------------------------
(* ast/convert.rs: the tree with user data and back.  A node of the        *)
(* generic tree is the node with the field user_data; a generic Document   *)
(* is its blocks and its user_data.                                        *)

\* T::default()
Default == "default"

\* The data handed to with_data.
Data == {"d"}

\* The node with user_data: data.
UserData(node, data) ==
    [f \in DOMAIN node \cup {"user_data"} |->
        IF f = "user_data" THEN data ELSE node[f]]

\* generic::ListKind::from(kind) and ListKind::from(kind)
generic_ListKind(kind) == [generic |-> kind]

ListKind_from(kind) == kind.generic

RECURSIVE Inline_with_data(_, _)
RECURSIVE Block_with_data(_, _)

\* into_iter().map(|i| i.with_data(T::default())).collect()
inlines_with_default(inlines) ==
    [k \in 1..Len(inlines) |-> Inline_with_data(inlines[k], Default)]

\* into_iter().map(|b| b.with_data(T::default())).collect()
blocks_with_default(blocks) ==
    [k \in 1..Len(blocks) |-> Block_with_data(blocks[k], Default)]

\* self.attr.map(|a| ImageAttributes {width: a.width, height: a.height})
attr_map(attr) ==
    IF attr.some
    THEN Some([width |-> attr.v.width, height |-> attr.v.height])
    ELSE None

Inline_with_data(inline, data) ==
    CASE inline.i \in {"Emphasis", "Strong"} ->
           UserData([inline EXCEPT !.c = inlines_with_default(@)], data)
      [] inline.i = "Link" ->
           UserData([inline EXCEPT !.children = inlines_with_default(@)], data)
      [] inline.i = "LinkReference" ->
           UserData([inline EXCEPT !.label = inlines_with_default(@),
                                   !.text = inlines_with_default(@)], data)
      [] inline.i = "Image" ->
           UserData([inline EXCEPT !.attr = attr_map(@)], data)
      [] OTHER -> UserData(inline, data)

\* A cell of a generic::Table: it has no user_data.
TableCell_with_data(cell) ==
    [content |-> inlines_with_default(cell.content),
     colspan |-> cell.colspan,
     rowspan |-> cell.rowspan,
     removed_by_extended_table |-> cell.removed_by_extended_table]

ListItem_with_data(item, data) ==
    UserData([item EXCEPT !.blocks = blocks_with_default(@)], data)

\* Block::MacroBlock(_content) => todo!()
Todo == [b |-> "todo!"]

Block_with_data(block, data) ==
    CASE block.b = "Paragraph" ->
           UserData([block EXCEPT !.inlines = inlines_with_default(@)], data)
      [] block.b = "Heading" ->
           UserData([block EXCEPT !.content = inlines_with_default(@)], data)
      [] block.b \in {"BlockQuote", "FootnoteDefinition", "GitHubAlert",
                      "Container"} ->
           UserData([block EXCEPT !.blocks = blocks_with_default(@)], data)
      [] block.b = "List" ->
           UserData([block EXCEPT
                        !.marker = generic_ListKind(@),
                        !.items = [k \in 1..Len(@) |->
                                      ListItem_with_data(@[k], Default)]],
                    data)
      [] block.b = "Definition" ->
           UserData([block EXCEPT !.label = inlines_with_default(@)], data)
      [] block.b = "Table" ->
           UserData([block EXCEPT !.rows =
                        [r \in 1..Len(@) |->
                            [k \in 1..Len(@[r]) |->
                                TableCell_with_data(@[r][k])]]], data)
      [] block.b = "MacroBlock" -> Todo
      [] OTHER -> UserData(block, data)

\* WithData for Document
Document_with_data(blocks, data) ==
    [blocks |-> blocks_with_default(blocks), user_data |-> data]

\* The node without its user_data.
Stripped(node) == [f \in DOMAIN node \ {"user_data"} |-> node[f]]

RECURSIVE Inline_strip_data(_)
RECURSIVE Block_strip_data(_)

inlines_strip_data(inlines) ==
    [k \in 1..Len(inlines) |-> Inline_strip_data(inlines[k])]

blocks_strip_data(blocks) ==
    [k \in 1..Len(blocks) |-> Block_strip_data(blocks[k])]

Inline_strip_data(inline) ==
    CASE inline.i \in {"Emphasis", "Strong"} ->
           Stripped([inline EXCEPT !.c = inlines_strip_data(@)])
      [] inline.i = "Link" ->
           Stripped([inline EXCEPT !.children = inlines_strip_data(@)])
      [] inline.i = "LinkReference" ->
           Stripped([inline EXCEPT !.label = inlines_strip_data(@),
                                   !.text = inlines_strip_data(@)])
      [] inline.i = "Image" -> Stripped([inline EXCEPT !.attr = attr_map(@)])
      [] OTHER -> Stripped(inline)

\* A cell with the flag of a covered cell put back to false.
TableCell_strip_data_uncovered(cell) ==
    [content |-> inlines_strip_data(cell.content),
     colspan |-> cell.colspan,
     rowspan |-> cell.rowspan,
     removed_by_extended_table |-> FALSE]

TableCell_strip_data(cell) ==
    [content |-> inlines_strip_data(cell.content),
     colspan |-> cell.colspan,
     rowspan |-> cell.rowspan,
     removed_by_extended_table |-> cell.removed_by_extended_table]

ListItem_strip_data(item) ==
    Stripped([item EXCEPT !.blocks = blocks_strip_data(@)])

Block_strip_data(block) ==
    CASE block.b = "Paragraph" ->
           Stripped([block EXCEPT !.inlines = inlines_strip_data(@)])
      [] block.b = "Heading" ->
           Stripped([block EXCEPT !.content = inlines_strip_data(@)])
      [] block.b \in {"BlockQuote", "FootnoteDefinition", "GitHubAlert",
                      "Container"} ->
           Stripped([block EXCEPT !.blocks = blocks_strip_data(@)])
      [] block.b = "List" ->
           Stripped([block EXCEPT
                        !.marker = ListKind_from(@),
                        !.items = [k \in 1..Len(@) |->
                                      ListItem_strip_data(@[k])]])
      [] block.b = "Definition" ->
           Stripped([block EXCEPT !.label = inlines_strip_data(@)])
      [] block.b = "Table" ->
           Stripped([block EXCEPT !.rows =
                        [r \in 1..Len(@) |->
                            [k \in 1..Len(@[r]) |->
                                TableCell_strip_data(@[r][k])]]])
      [] OTHER -> Stripped(block)

\* StripData for generic::Document
Document_strip_data(generic) == blocks_strip_data(generic.blocks)

\* to_generic: doc.with_default_data()
to_generic(blocks) == Document_with_data(blocks, Default)

\* from_generic: doc.strip_data()
from_generic(generic) == Document_strip_data(generic)

\* todo!() was come to while the generic document g was built: the call
\* does not return.
Panicked(g) == \E x \in Range(AllBlocks(g.blocks, 1)) : x = Todo

\* What a caller has of a call that made g: the value f(g), or none.
Returned(g, v) ==
    IF Panicked(g) THEN [t |-> "panic", val |-> <<>>]
    ELSE [t |-> "Ok", val |-> v]

----------------------------------------------------------------------------
(* The documents handed to the filters, the expansion walk and the data    *)
(* conversion: put together as above, out of blocks that have an empty     *)
(* paragraph and definitions of one label among them.                      *)

EmptyParagraph == Paragraph(<<>>)

\* A second link definition of the label Ex.
DefEx2 == Definition(Ex, <<"v">>)

\* A block quote with definitions of labels defined outside it too.
QuoteDefs == BlockQuote(<<DefEx2, FootN>>)

\* Block::MacroBlock
MacroBlock == [b |-> "MacroBlock", content |-> <<"m">>]

\* A container with params around an ordered list of one item, a paragraph
\* of an image with a width.
Figure ==
    Container(<<"w">>, << <<(<<"a">>), <<"b">> >> >>,
              <<List("Ordered",
                     <<ListItem(<<Paragraph(<<
                         Image(<<"u">>, <<"f">>,
                               Some([width |-> Some(W100pt),
                                     height |-> None]))>>)>>)>>)>>)

DocLeaves ==
    {EmptyParagraph, HLink, DefEx, FootN, QuoteDefs, MacroBlock, Figure}

DocTable ==
    table(<<Cell(<<Text(<<"a">>)>>, 2), Cell(<<Text(<<"b">>)>>, 1)>>,
          <<"None", "Center", "Right">>,
          << <<Cell(<<Text(<<"c">>)>>, 1), Cell(<<Text(<<"t">>)>>, 2)>> >>)

\* doc.remove_empty_paragraphs()
RemoveEmptyParagraphs ==
    Apply("remove_empty_paragraphs", remove_empty_paragraphs(ast))

\* doc.expand_with(&mut t): the transformer and the documents returned.
Expand(t) == Apply("expand", [t |-> t, docs |-> expand_with(ast, t)])

\* from_generic(to_generic(doc))
RoundTripOf(g) == Apply("from_generic", Returned(g, from_generic(g)))

RoundTrip == RoundTripOf(to_generic(ast))

\* doc.with_data(d)
WithDataOf(d, g) == Apply("with_data", [d |-> d, g |-> Returned(g, g)])

WithData(d) == WithDataOf(d, Document_with_data(ast, d))

NextDocs ==
    \/ \E b \in DocLeaves : AddBlock(b)
    \/ AddTable(DocTable)
    \/ \E w \in Wrappers, n \in 1..MaxSteps : Wrap(w, n)
    \/ RemoveEmptyParagraphs
    \/ \E t \in Transformers \cup Overriders : Expand(t)
    \/ Index
    \/ RoundTrip
    \/ \E d \in Data : WithData(d)

SpecDocs == Init /\ [][NextDocs]_vars

\* The blocks with every empty paragraph taken out, at every depth.
RECURSIVE Pruned(_)
PrunedBlock(block) ==
    [f \in DOMAIN block |->
        CASE f = "blocks" -> Pruned(block[f])
          [] f = "items" ->
               [k \in 1..Len(block[f]) |->
                   [block[f][k] EXCEPT !.blocks = Pruned(@)]]
          [] OTHER -> block[f]]

PrunedFrom(kept) == [k \in 1..Len(kept) |-> PrunedBlock(kept[k])]

Pruned(blocks) ==
    PrunedFrom(SelectSeq(blocks, LAMBDA block : ~is_empty_paragraph(block)))

(* C24: after doc.remove_empty_paragraphs() the document has no Paragraph   *)
(* with an empty inline list, at the top level or inside a block quote, a   *)
(* list item, a footnote, an alert or a container, and every other block    *)
(* is kept, in its place and order.                                         *)
C24_NoEmptyParagraphs ==
    op = "remove_empty_paragraphs" =>
        /\ \A block \in Range(AllBlocks(res, 1)) : ~is_empty_paragraph(block)
        /\ res = Pruned(ast)

\* What the code does: the empty paragraphs among the blocks of the
\* document itself are taken out and every other block is kept as it is.
C24_TopLevelOnly ==
    op = "remove_empty_paragraphs" =>
        /\ \A k \in 1..Len(res) : ~is_empty_paragraph(res[k])
        /\ res = SelectSeq(ast, LAMBDA block : block # EmptyParagraph)

(* C25: for a transformer that overrides no expand_* and no walk_expand_*   *)
(* method, doc.expand_with(t) returns one document and it is the document   *)
(* doc.transform_with(t) returns: an override of transform_block,           *)
(* transform_heading, transform_list_item, transform_table_cell,            *)
(* transform_footnote_definition, transform_github_alert or                 *)
(* transform_inline acts on the expansion walk as on the 1-to-1 walk.       *)
C25_ExpandIsTransform ==
    op = "expand" => res.docs = <<transform_with(ast, res.t)>>

\* What the code does: the two walks agree for a transformer that overrides
\* transform_inline or nothing; an override of transform_heading acts under
\* the expansion walk on the headings of list items and containers only.
C25_InlineOverride ==
    op = "expand" /\ res.t \in Transformers =>
        res.docs = <<transform_with(ast, res.t)>>

\* The escape documented for a special character.
Documented ==
    [c \in Specials |->
        CASE c = "\\" -> <<"\\", "t", "e", "x", "t", "b", "a", "c", "k", "s",
                           "l", "a", "s", "h">> \o <<"{", "}">>
          [] c = "^" -> <<"\\", "t", "e", "x", "t", "a", "s", "c", "i", "i",
                          "c", "i", "r", "c", "u", "m">> \o <<"{", "}">>
          [] c = "~" -> <<"\\", "t", "e", "x", "t", "a", "s", "c", "i", "i",
                          "t", "i", "l", "d", "e">> \o <<"{", "}">>
          [] OTHER -> <<"\\", c>>]

\* Every character of the text replaced on its own, left to right.
Replaced(text) ==
    Flatten([k \in 1..Len(text) |->
                IF text[k] \in Specials THEN Documented[text[k]]
                ELSE <<text[k]>>], 1)

(* C26: escape_latex goes through its input character by character, left   *)
(* to right: each of the ten special characters is replaced by its         *)
(* documented escape, every other character is copied, what a replacement  *)
(* introduces is not escaped again, and escape_latex(a ++ b) =             *)
(* escape_latex(a) ++ escape_latex(b).                                     *)
C26_EscapeHomomorphism ==
    eph = "escaped" =>
        /\ eres.a = Replaced(ea)
        /\ eres.b = Replaced(eb)
        /\ eres.ab = eres.a \o eres.b

C26_Witness ==
    /\ eph = "escaped"
    /\ ea = <<"\\", "a">>
    /\ eb = <<"{">>
    /\ eres.ab = <<"\\", "t", "e", "x", "t", "b", "a", "c", "k", "s", "l", "a",
                   "s", "h", "{", "}", "a", "\\", "{">>

\* The Container blocks among the blocks given, at any depth.
ContainersOf(blocks) ==
    SelectSeq(AllBlocks(blocks, 1), LAMBDA x : x.b = "Container")

\* No Container among the blocks has a Container in its body.
NoneNested(blocks) ==
    \A x \in Range(ContainersOf(blocks)) : ContainersOf(x.blocks) = <<>>

(* C27: in every parser state of a parse started from the default state     *)
(* the container stack has length 0 or 1: a kind is pushed by the          *)
(* container recognizer only, one kind onto a copy of a stack that was     *)
(* empty; so no Container is produced while the body of another is parsed. *)
C27_OneLevel ==
    seed = <<>> =>
        /\ Len(frames) <= 2
        /\ \A k \in 1..Len(frames) : Len(frames[k].st) = k - 1
        /\ tried.out # "None" => Len(tried.st) <= 1
        /\ tried.out \in {"Open", "Ok"} => tried.st = <<>>
        /\ \A k \in 2..Len(frames) : ContainersOf(frames[k].blocks) = <<>>
        /\ \A k \in 1..Len(frames) : NoneNested(frames[k].blocks)
        /\ NoneNested(doc)

C27_Witness ==
    /\ seed = <<>>
    /\ pc = "parse"
    /\ Len(frames) = 2
    /\ frames[2].st = <<(<<"n">>)>>
    /\ tried.st = frames[2].st
    /\ LineAt(tried.at, LList)
    /\ tried.out = "Error"
    /\ frames[2].blocks # <<>>

\* The text after the ")" has no "{" where a block would start.
NoBrace == ~StartsWith(multispace0(tail), <<"{">>)

\* No "}" is written at all.
MissingClose == "}" \notin Range(tail)

\* The key width is written with no "=" after it.
KeyAlone ==
    \/ EndsWith(tail, WidthKey)
    \/ \E e \in {<<"}">>, <<" ", "}">>, <<" ", "w">>, <<" ", "h">>,
                 <<" ", "a">>} : Contains(tail, WidthKey \o e)

\* A key and "=" are written with no value: the block or the text ends
\* there.
LastValueMissing ==
    \/ EndsWith(tail, <<"=">>)
    \/ Contains(tail, <<"=", "}">>)
    \/ Contains(tail, <<"=", " ", "}">>)

\* A key and "=" are written with no value and another attribute follows.
ValueMissingBefore ==
    \E e \in {<<"w">>, <<"h">>, <<"a">>} : Contains(tail, <<"=", " ">> \o e)

MissingValue == LastValueMissing \/ ValueMissingBefore

\* The image of ImageHead with no attributes, and all of the tail left.
Declined ==
    img = Ok(tail, Image(<<"/", "u", "r", "l">>, <<"f", "o", "o">>, None))

\* Well-formed blocks with no key, or with keys other than width and height.
OtherKeyBlocks ==
    {o \o b \o c : o \in {<<"{">>, <<" ", "{">>},
                   b \in {<<>>, <<"a", "l", "t", "=">> \o W100pt,
                          <<"a", "l", "t", "=">> \o W100pt
                              \o <<" ", "a", "l", "t", "=">> \o W100pt},
                   c \in {<<"}">>, <<" ", "}">>}}

\* A block of no width and no height is consumed up to its brace.
ConsumedEmpty ==
    \A b \in OtherKeyBlocks, a \in Trailing :
        tail = b \o a =>
            img = Ok(a, Image(<<"/", "u", "r", "l">>, <<"f", "o", "o">>,
                              Some([width |-> None, height |-> None])))

(* C28: if what follows the ")" of an image is no well-formed attribute    *)
(* block (no "{", a key without "=", a missing value, a missing "}"), the  *)
(* image is recognized with attr = None and nothing after the ")" is       *)
(* consumed: the brace text and the whitespace before it are left; a       *)
(* well-formed block whose keys are all other than width and height, or    *)
(* "{}", is consumed and gives attr = Some(width = None, height = None).   *)
C28_Malformed ==
    ImageParsed =>
        /\ (NoBrace \/ KeyAlone \/ MissingValue \/ MissingClose) => Declined
        /\ ConsumedEmpty

\* What the code does: the block is declined when the "{" or the "}" is
\* missing, and when a key has no "=" or the last attribute no value
\* unless an attribute stands behind a "=" with no value: the value looked
\* for after "=" and the whitespace behind it is the next token, whatever
\* it is.
C28_DeclinedUnlessNextToken ==
    ImageParsed =>
        /\ (NoBrace \/ MissingClose
            \/ ((KeyAlone \/ LastValueMissing) /\ ~ValueMissingBefore))
           => Declined
        /\ ConsumedEmpty

\* The definitions the index build comes by, in the order it does.
VisitedDefinitions ==
    SelectSeq(IndexedBlocks(ast, 1), LAMBDA x : x.b = "Definition")

VisitedFootnotes ==
    SelectSeq(IndexedBlocks(ast, 1), LAMBDA x : x.b = "FootnoteDefinition")

Labels(s) == {s[k].label : k \in 1..Len(s)}

\* The place of the last block of s with the label l.
LastAt(s, l) ==
    CHOOSE k \in 1..Len(s) :
        s[k].label = l /\ \A j \in (k + 1)..Len(s) : s[j].label # l

(* C29: when several definitions have one label the indices hold the last   *)
(* in pre-order: a link label maps to the last Definition of that label,   *)
(* and the footnote counter goes up at every FootnoteDefinition come by, a *)
(* label already in the map too, so a footnote label maps to the count of  *)
(* the footnote definitions up to and including its last one, and the      *)
(* indices in the map can have gaps.                                       *)
C29_LastWins ==
    op = "index" =>
        /\ DOMAIN res.link_definitions = Labels(VisitedDefinitions)
        /\ \A l \in Labels(VisitedDefinitions) :
              res.link_definitions[l] =
                  VisitedDefinitions[LastAt(VisitedDefinitions, l)]
        /\ DOMAIN res.footnote_index = Labels(VisitedFootnotes)
        /\ \A l \in Labels(VisitedFootnotes) :
              res.footnote_index[l] = LastAt(VisitedFootnotes, l)
        /\ res.footnote_counter = Len(VisitedFootnotes) + 1

C29_Witness ==
    /\ op = "index"
    /\ ast = <<DefEx, FootN, QuoteDefs>>
    /\ res.link_definitions[Ex] = DefEx2
    /\ DOMAIN res.footnote_index = {<<"n">>}
    /\ res.footnote_index[<<"n">>] = 2

\* The document has no Block::MacroBlock, at any depth.
NoMacroBlock == \A x \in Range(AllBlocks(ast, 1)) : x.b # "MacroBlock"

\* The list items of the blocks given, at any depth.
ItemsOf(blocks) ==
    Flatten([k \in 1..Len(AllBlocks(blocks, 1)) |->
                Field(AllBlocks(blocks, 1)[k], "items")], 1)

\* Every block, list item and inline under the blocks given has the
\* default for its user data.
AllDefault(blocks) ==
    /\ \A x \in Range(AllBlocks(blocks, 1)) : x.user_data = Default
    /\ \A x \in Range(ItemsOf(blocks)) : x.user_data = Default
    /\ \A x \in Range(AllInlines(blocks)) : x.user_data = Default

(* C30: for a document with no Block::MacroBlock                            *)
(* from_generic(to_generic(doc)) is doc: blocks and inlines of every kind,  *)
(* list kinds, table cells with colspan, rowspan and the flag of a covered  *)
(* cell, image attributes and container params are as they were; and       *)
(* doc.with_data(d) has d at the root alone, every node below it has        *)
(* T::default().                                                            *)
C30_RoundTrip ==
    /\ (op = "from_generic" /\ NoMacroBlock) => res = [t |-> "Ok", val |-> ast]
    /\ (op = "with_data" /\ NoMacroBlock) =>
          /\ res.g.t = "Ok"
          /\ res.g.val.user_data = res.d
          /\ AllDefault(res.g.val.blocks)
          /\ Len(AllInlines(res.g.val.blocks)) = Len(AllInlines(ast))
          /\ Len(AllBlocks(res.g.val.blocks, 1)) = Len(AllBlocks(ast, 1))

C30_Witness ==
    /\ op = "from_generic"
    /\ Len(ast) = 3
    /\ ast[1] = Figure
    /\ ast[2].b = "Table"
    /\ ast[2].rows[1][2].removed_by_extended_table
    /\ ast[3] = QuoteDefs
    /\ res.t = "Ok"
    /\ res.val = ast

====
